---------------------------- MODULE Spec2Model ----------------------------
(***************************************************************************)
(* Range analysis of a tensor graph (qonnx/util/range_analysis.py).        *)
(*                                                                         *)
(* Numbers are exact rationals extended with the IEEE specials the numpy   *)
(* code can produce (NaN, +inf, -inf).  A value is a python scalar, a 1-D  *)
(* array or a 2-D array; elementwise operations broadcast as numpy does.   *)
(***************************************************************************)
EXTENDS Integers, Sequences, FiniteSets, TLC

VARIABLES
    model,        \* the graph: nodes, initializers, graph inputs, value infos
    opts,         \* keyword arguments of range_analysis
    range_dict,   \* tensor name -> RangeInfo
    stuck_chans,  \* tensor name -> sequence of <<channel, value>>
    idx,          \* position of the running loop over model.graph.node
    pc,           \* "walk" | "intrange" | "report" | "done" | "failed"
    ret,          \* the value range_analysis returns
    arg,          \* argument of a function exercised on its own
    res           \* result of a function exercised on its own

vars == <<model, opts, range_dict, stuck_chans, idx, pc, ret, arg, res>>

walker_vars == <<model, opts, range_dict, stuck_chans, idx, pc, ret>>

None == [k |-> "none"]

(***************************************************************************)
(* Numbers: [n, d] with d >= 1 is the reduced fraction n/d; d = 0 encodes  *)
(* NaN (n = 0), +inf (n = 1) and -inf (n = -1).                            *)
(***************************************************************************)
Abs(i) == IF i < 0 THEN -i ELSE i

Sign(i) == IF i < 0 THEN -1 ELSE IF i > 0 THEN 1 ELSE 0

RECURSIVE GCD(_, _)
GCD(a, b) == IF b = 0 THEN a ELSE GCD(b, a % b)

Frac(n, d) ==
    LET s == IF d < 0 THEN -1 ELSE 1
        g == GCD(Abs(n), Abs(d))
    IN  [n |-> (s * n) \div g, d |-> (s * d) \div g]

I(i) == [n |-> i, d |-> 1]

NaN == [n |-> 0, d |-> 0]

Inf(s) == [n |-> s, d |-> 0]

IsNaN(a) == a.d = 0 /\ a.n = 0

IsInf(a) == a.d = 0 /\ a.n # 0

IsFinite(a) == a.d > 0

NNeg(a) == [n |-> -a.n, d |-> a.d]

NAdd(a, b) ==
    IF IsNaN(a) \/ IsNaN(b) THEN NaN
    ELSE IF IsInf(a) /\ IsInf(b) THEN (IF a.n = b.n THEN a ELSE NaN)
    ELSE IF IsInf(a) THEN a
    ELSE IF IsInf(b) THEN b
    ELSE Frac(a.n * b.d + b.n * a.d, a.d * b.d)

NSub(a, b) == NAdd(a, NNeg(b))

NMul(a, b) ==
    IF IsNaN(a) \/ IsNaN(b) THEN NaN
    ELSE IF IsInf(a) \/ IsInf(b)
         THEN (IF a.n = 0 \/ b.n = 0 THEN NaN ELSE Inf(Sign(a.n) * Sign(b.n)))
    ELSE Frac(a.n * b.n, a.d * b.d)

NDiv(a, b) ==
    IF IsNaN(a) \/ IsNaN(b) THEN NaN
    ELSE IF IsInf(a) THEN (IF IsInf(b) THEN NaN
                           ELSE Inf(a.n * (IF b.n < 0 THEN -1 ELSE 1)))
    ELSE IF IsInf(b) THEN I(0)
    ELSE IF b.n = 0 THEN (IF a.n = 0 THEN NaN ELSE Inf(Sign(a.n)))
    ELSE Frac(a.n * b.d, a.d * b.n)

\* IEEE comparisons: every comparison with NaN is false
NLt(a, b) ==
    IF IsNaN(a) \/ IsNaN(b) THEN FALSE
    ELSE IF IsInf(a) \/ IsInf(b)
         THEN (a.d = 0 /\ a.n = -1 /\ ~(b.d = 0 /\ b.n = -1))
              \/ (b.d = 0 /\ b.n = 1 /\ ~(a.d = 0 /\ a.n = 1))
    ELSE a.n * b.d < b.n * a.d

NEq(a, b) == ~IsNaN(a) /\ ~IsNaN(b) /\ a = b

NLe(a, b) == NLt(a, b) \/ NEq(a, b)

\* np.minimum / np.maximum propagate NaN
NMin(a, b) == IF IsNaN(a) \/ IsNaN(b) THEN NaN ELSE IF NLt(b, a) THEN b ELSE a

NMax(a, b) == IF IsNaN(a) \/ IsNaN(b) THEN NaN ELSE IF NLt(a, b) THEN b ELSE a

\* np.round: to the nearest integer, halves to the even one
NRound(a) ==
    IF ~IsFinite(a) THEN a
    ELSE LET q == a.n \div a.d
             r == a.n - q * a.d
         IN  IF 2 * r < a.d THEN I(q)
             ELSE IF 2 * r > a.d THEN I(q + 1)
             ELSE IF q % 2 = 0 THEN I(q) ELSE I(q + 1)

\* x % 1 == 0
IsWhole(a) == IsFinite(a) /\ a.d = 1

(***************************************************************************)
(* Values: [k |-> "s", v] a scalar, [k |-> "v", v] a 1-D array (sequence), *)
(* [k |-> "m", v] a 2-D array (sequence of rows), [k |-> "err"] a raised   *)
(* exception.                                                              *)
(***************************************************************************)
S(x) == [k |-> "s", v |-> x]

V(xs) == [k |-> "v", v |-> xs]

M(rows) == [k |-> "m", v |-> rows]

Err == [k |-> "err"]

IsArr(x) == x.k \in {"v", "m"}

IsVal(x) == x.k \in {"s", "v", "m"}

Rank(x) == IF x.k = "m" THEN 2 ELSE IF x.k = "v" THEN 1 ELSE 0

NRows(x) == IF x.k = "m" THEN Len(x.v) ELSE 1

NCols(x) ==
    IF x.k = "m" THEN (IF Len(x.v) = 0 THEN 0 ELSE Len(x.v[1]))
    ELSE IF x.k = "v" THEN Len(x.v) ELSE 1

\* element (i, j) of x broadcast to a larger shape
At(x, i, j) ==
    IF x.k = "s" THEN x.v
    ELSE IF x.k = "v" THEN x.v[IF Len(x.v) = 1 THEN 1 ELSE j]
    ELSE x.v[IF NRows(x) = 1 THEN 1 ELSE i][IF NCols(x) = 1 THEN 1 ELSE j]

BDim(a, b) == IF a = 1 THEN b ELSE a

\* the sequence <<F(1), ..., F(n)>>
RECURSIVE Tab(_, _)
Tab(F(_), n) == IF n <= 0 THEN <<>> ELSE Append(Tab(F, n - 1), F(n))

BOk(a, b) == a = b \/ a = 1 \/ b = 1

MkVal(rank, nr, nc, F(_, _)) ==
    IF rank = 0 THEN S(F(1, 1))
    ELSE IF rank = 1 THEN V(Tab(LAMBDA j : F(1, j), nc))
    ELSE M(Tab(LAMBDA i : Tab(LAMBDA j : F(i, j), nc), nr))

MaxI(a, b) == IF a < b THEN b ELSE a

\* numpy's broadcast of an elementwise binary operation
Elementwise2(Op(_, _), x, y) ==
    IF ~IsVal(x) \/ ~IsVal(y) THEN Err
    ELSE IF ~BOk(NRows(x), NRows(y)) \/ ~BOk(NCols(x), NCols(y)) THEN Err
    ELSE MkVal(MaxI(Rank(x), Rank(y)),
               BDim(NRows(x), NRows(y)), BDim(NCols(x), NCols(y)),
               LAMBDA i, j : Op(At(x, i, j), At(y, i, j)))

Elementwise1(Op(_), x) ==
    IF ~IsVal(x) THEN Err
    ELSE MkVal(Rank(x), NRows(x), NCols(x), LAMBDA i, j : Op(At(x, i, j)))

\* np.where(cond, x, y) with cond = (matrix > 0)
WherePos(matrix, x, y) ==
    IF ~IsVal(matrix) \/ ~IsVal(x) \/ ~IsVal(y) THEN Err
    ELSE LET xy == Elementwise2(LAMBDA a, b : <<a, b>>, x, y)
         IN  Elementwise2(LAMBDA c, p : IF NLt(I(0), c) THEN p[1] ELSE p[2],
                          matrix, xy)

RECURSIVE SumSeq(_)
SumSeq(xs) == IF Len(xs) = 0 THEN I(0) ELSE NAdd(xs[1], SumSeq(Tail(xs)))

\* x.sum(axis=1) of a 2-D array
SumAxis1(x) ==
    IF x.k # "m" THEN Err ELSE V(Tab(LAMBDA i : SumSeq(x.v[i]), Len(x.v)))

\* (x == y).all(), python's all() over x == y; an empty array gives True
AllEq(x, y) ==
    /\ IsVal(x) /\ IsVal(y)
    /\ BOk(NRows(x), NRows(y)) /\ BOk(NCols(x), NCols(y))
    /\ \A i \in 1..BDim(NRows(x), NRows(y)), j \in 1..BDim(NCols(x), NCols(y)) :
          NEq(At(x, i, j), At(y, i, j))

(***************************************************************************)
(* calculate_matvec_accumulator_extremum                                   *)
(***************************************************************************)
KernelSwapped(matrix, vec_min, vec_max) ==
    LET max_vectors == WherePos(matrix, vec_min, vec_max)
        min_vectors == WherePos(matrix, vec_max, vec_min)
        max_values == SumAxis1(Elementwise2(NMul, matrix, max_vectors))
        min_values == SumAxis1(Elementwise2(NMul, matrix, min_vectors))
    IN  <<min_values, max_values>>

calculate_matvec_accumulator_extremum(matrix, vec_min, vec_max) ==
    LET max_vectors == WherePos(matrix, vec_max, vec_min)
        min_vectors == WherePos(matrix, vec_min, vec_max)
        max_values == SumAxis1(Elementwise2(NMul, matrix, max_vectors))
        min_values == SumAxis1(Elementwise2(NMul, matrix, min_vectors))
    IN  <<min_values, max_values>>

(***************************************************************************)
(* The kernel on its own: a matrix and an interval are drawn, the kernel   *)
(* is applied once.                                                        *)
(***************************************************************************)
IvalMax == 1

KernelShapes == {<<1, 1>>, <<1, 2>>, <<2, 1>>, <<2, 2>>}

CoefVals == {-1, 0, 1}

IvalVals == (-IvalMax)..IvalMax

IntMat(sh, vals) == [1..sh[1] -> [1..sh[2] -> vals]]

NumMat(im) == M(Tab(LAMBDA i : Tab(LAMBDA j : I(im[i][j]), Len(im[i])), Len(im)))

NumVec(iv) == V(Tab(LAMBDA j : I(iv[j]), Len(iv)))

\* the intervals over n columns with vmin <= vmax elementwise: scalar or per column
Intervals(n) ==
    {<<S(I(lo)), S(I(hi))>> : <<lo, hi>> \in {p \in IvalVals \X IvalVals : p[1] <= p[2]}}
    \cup {<<NumVec(lo), NumVec(hi)>> :
            <<lo, hi>> \in {p \in [1..n -> IvalVals] \X [1..n -> IvalVals] :
                             \A j \in 1..n : p[1][j] <= p[2][j]}}

WalkerIdle ==
    /\ model = None
    /\ opts = None
    /\ range_dict = <<>>
    /\ stuck_chans = <<>>
    /\ idx = 0
    /\ pc = "idle"
    /\ ret = None

InitKernel ==
    /\ WalkerIdle
    /\ \E sh \in KernelShapes : \E im \in IntMat(sh, CoefVals) :
       \E iv \in Intervals(sh[2]) :
          arg = [fn |-> "kernel", matrix |-> NumMat(im), vec_min |-> iv[1], vec_max |-> iv[2]]
    /\ res = None

ApplyKernel ==
    /\ arg.fn = "kernel"
    /\ res = None
    /\ res' = [k |-> "range",
               range |-> calculate_matvec_accumulator_extremum(arg.matrix, arg.vec_min, arg.vec_max)]
    /\ UNCHANGED <<walker_vars, arg>>

SpecKernel == InitKernel /\ [][ApplyKernel]_vars

\* the concrete vectors x with vec_min <= x <= vec_max elementwise
BoxPoints(n, vec_min, vec_max) ==
    {x \in [1..n -> IvalVals] :
        \A j \in 1..n : NLe(At(vec_min, 1, j), I(x[j])) /\ NLe(I(x[j]), At(vec_max, 1, j))}

\* row i of A*x
RowDot(matrix, i, x) ==
    SumSeq(Tab(LAMBDA j : NMul(At(matrix, i, j), I(x[j])), NCols(matrix)))

KernelApplied == arg # None /\ arg.fn = "kernel" /\ res # None

\* C1: the kernel returns, per row, exactly the minimum and the maximum of
\* A*x over the box vec_min <= x <= vec_max: every A*x lies within
\* [omin, omax] and both bounds are attained by some x of the box.
C1_KernelExact ==
    KernelApplied =>
        LET A == arg.matrix
            box == BoxPoints(NCols(A), arg.vec_min, arg.vec_max)
            omin == res.range[1]
            omax == res.range[2]
        IN  /\ omin.k = "v" /\ Len(omin.v) = NRows(A)
            /\ omax.k = "v" /\ Len(omax.v) = NRows(A)
            /\ \A i \in 1..NRows(A) :
                  /\ \A x \in box : /\ NLe(omin.v[i], RowDot(A, i, x))
                                     /\ NLe(RowDot(A, i, x), omax.v[i])
                  /\ \E x \in box : RowDot(A, i, x) = omin.v[i]
                  /\ \E x \in box : RowDot(A, i, x) = omax.v[i]

\* a row mixing a positive and a negative coefficient over a per-column box
\* that is not a single point
C1_Witness ==
    /\ KernelApplied
    /\ arg.vec_min.k = "v"
    /\ NCols(arg.matrix) = 2
    /\ \E i \in 1..NRows(arg.matrix) :
          /\ NLt(At(arg.matrix, i, 1), I(0)) /\ NLt(I(0), At(arg.matrix, i, 2))
          /\ NLt(res.range[1].v[i], res.range[2].v[i])
    /\ \A j \in 1..2 : NLt(At(arg.vec_min, 1, j), At(arg.vec_max, 1, j))


(***************************************************************************)
(* simplify_range                                                          *)
(***************************************************************************)
\* x[0]: IndexError on an empty array; a row of a 2-D array is a 1-D array
First(x) ==
    IF x.k = "v" THEN (IF Len(x.v) = 0 THEN Err ELSE S(x.v[1]))
    ELSE IF x.k = "m" THEN (IF Len(x.v) = 0 THEN Err ELSE V(x.v[1]))
    ELSE Err

\* python's all(x == x[0]) over an array: "T", "F", or "E" when it raises
\* (indexing an empty array; the truth value of a row of several elements)
AllEqFirst(x) ==
    IF First(x).k = "err" THEN "E"
    ELSE IF x.k = "v"
         THEN (IF \A j \in 1..Len(x.v) : NEq(x.v[j], x.v[1]) THEN "T" ELSE "F")
    ELSE IF NCols(x) > 1 THEN "E"
    ELSE IF NCols(x) = 0 THEN "F"
    ELSE (IF \A i \in 1..Len(x.v) : NEq(x.v[i][1], x.v[1][1]) THEN "T" ELSE "F")

SimplifyMinOnly(range) ==
    LET rmin == range[1]
        rmax == range[2]
    IN  IF IsArr(rmin) /\ IsArr(rmax)
        THEN (IF AllEqFirst(rmin) = "E" \/ AllEqFirst(rmax) = "E" THEN <<Err, Err>>
              ELSE IF AllEqFirst(rmin) = "T"
                   THEN <<First(rmin), First(rmax)>>
              ELSE range)
        ELSE range

simplify_range(range) ==
    LET rmin == range[1]
        rmax == range[2]
    IN  IF IsArr(rmin) /\ IsArr(rmax)
        THEN (IF AllEqFirst(rmin) = "E" \/ AllEqFirst(rmax) = "E" THEN <<Err, Err>>
              ELSE IF AllEqFirst(rmin) = "T" /\ AllEqFirst(rmax) = "T"
                   THEN <<First(rmin), First(rmax)>>
              ELSE range)
        ELSE range

(***************************************************************************)
(* simplify_range on its own: an interval is drawn, then simplified once   *)
(* and once more.                                                          *)
(***************************************************************************)
SimpMaxCh == 2

\* scalar pairs and per-channel pairs of 1..SimpMaxCh channels
SimpRanges ==
    {<<S(I(lo)), S(I(hi))>> : <<lo, hi>> \in IvalVals \X IvalVals}
    \cup UNION {{<<NumVec(lo), NumVec(hi)>> :
                    <<lo, hi>> \in [1..n -> IvalVals] \X [1..n -> IvalVals]}
                : n \in 1..SimpMaxCh}

InitSimplify ==
    /\ WalkerIdle
    /\ \E r \in SimpRanges : arg = [fn |-> "simplify", range |-> r]
    /\ res = None

ApplySimplify ==
    /\ arg.fn = "simplify"
    /\ \/ /\ res = None
          /\ res' = [k |-> "simplified", n |-> 1, prev |-> arg.range,
                     range |-> simplify_range(arg.range)]
       \/ /\ res # None
          /\ res.n = 1
          /\ res' = [k |-> "simplified", n |-> 2, prev |-> res.range,
                     range |-> simplify_range(res.range)]
    /\ UNCHANGED <<walker_vars, arg>>

SpecSimplify == InitSimplify /\ [][ApplySimplify]_vars

SimplifiedTimes(n) == arg # None /\ arg.fn = "simplify" /\ res # None /\ res.n = n

\* a per-channel pair whose min bounds are all equal and whose max bounds are all equal
AllChannelsAgree(r) ==
    /\ r[1].k = "v" /\ r[2].k = "v"
    /\ \A j \in 1..Len(r[1].v) : r[1].v[j] = r[1].v[1]
    /\ \A j \in 1..Len(r[2].v) : r[2].v[j] = r[2].v[1]

\* C6: simplify_range is idempotent; a per-channel interval whose channels
\* all agree becomes the scalar interval of the two values, and any other
\* interval is returned unchanged.
C6_SimplifyIdempotent ==
    /\ SimplifiedTimes(1) =>
         IF AllChannelsAgree(arg.range)
         THEN res.range = <<S(arg.range[1].v[1]), S(arg.range[2].v[1])>>
         ELSE res.range = arg.range
    /\ SimplifiedTimes(2) => res.range = res.prev

\* a two-channel interval whose channels agree, simplified twice
C6_Witness ==
    /\ SimplifiedTimes(2)
    /\ arg.range[1].k = "v" /\ Len(arg.range[1].v) = 2
    /\ AllChannelsAgree(arg.range)
    /\ res.range[1].k = "s"
    /\ arg.range[1].v[1] # arg.range[2].v[1]


(***************************************************************************)
(* The graph.  A tensor name is a sequence of characters.  model is        *)
(*   [node  |-> sequence of [name, op_type, input, output, attr],          *)
(*    init  |-> name -> constant value (the initializers),                 *)
(*    input |-> sequence of graph input names,                             *)
(*    shape |-> name -> sequence of dimensions,                            *)
(*    dtype |-> name -> declared datatype or None]                         *)
(* Dynamic tensors are 2-D (batch, channels): the channel axis is axis 1.  *)
(***************************************************************************)
NoRange == <<None, None>>

\* RangeInfo(): the dataclass defaults
RangeInfo ==
    [range |-> NoRange, int_range |-> NoRange, scale |-> None, bias |-> None,
     is_initializer |-> FALSE]

has_integer_info(ri) ==
    ri.int_range # NoRange /\ ri.scale # None /\ ri.bias # None

Put(f, key, val) == (key :> val) @@ f

\* get_by_name(node.attribute, a): None when the attribute is not declared
HasAttr(node, a) == a \in DOMAIN node.attr

get_initializer(m, x) == IF x \in DOMAIN m.init THEN m.init[x] ELSE None

is_dyn_input(x, m) == get_initializer(m, x) = None /\ x # <<>>

\* no input taken as dynamic
DynInputsNone(node, m) == <<>>

DynInputs(node, m) == SelectSeq(node.input, LAMBDA x : is_dyn_input(x, m))

(***************************************************************************)
(* Declared datatypes: [signed, bits]; one bit is BIPOLAR or BINARY.       *)
(***************************************************************************)
RECURSIVE Pow2(_)
Pow2(n) == IF n = 0 THEN 1 ELSE 2 * Pow2(n - 1)

DataTypeMin(dt) ==
    IF dt.bits = 1 THEN (IF dt.signed THEN -1 ELSE 0)
    ELSE IF dt.signed THEN -Pow2(dt.bits - 1) ELSE 0

DataTypeMax(dt) ==
    IF dt.bits = 1 THEN 1
    ELSE IF dt.signed THEN Pow2(dt.bits - 1) - 1 ELSE Pow2(dt.bits) - 1

(***************************************************************************)
(* execute_node: the evaluation of one node on concrete tensors.  ins are  *)
(* the node's inputs in order; the result is the sequence of its outputs,  *)
(* or Err when the evaluation raises.                                      *)
(***************************************************************************)
\* the integer interval a Quant node clips to
QuantMinInt(signed, narrow, bits) ==
    IF signed /\ narrow THEN -Pow2(bits - 1) + 1
    ELSE IF signed THEN -Pow2(bits - 1)
    ELSE 0

QuantMaxInt(signed, narrow, bits) ==
    IF ~signed /\ ~narrow THEN Pow2(bits) - 1
    ELSE IF ~signed THEN Pow2(bits) - 2
    ELSE Pow2(bits - 1) - 1

NClip(x, lo, hi) == NMin(NMax(x, lo), hi)

\* scale * (clip(round(x / scale + zeropt)) - zeropt)
QuantEval(node, x, scale, zeropt, bitwidth) ==
    LET bits == At(bitwidth, 1, 1).n
        signed == node.attr["signed"] = 1
        narrow == node.attr["narrow"] = 1
        lo == I(QuantMinInt(signed, narrow, bits))
        hi == I(QuantMaxInt(signed, narrow, bits))
        y == Elementwise2(NAdd, Elementwise2(NDiv, x, scale), zeropt)
        q == Elementwise1(LAMBDA a : NClip(NRound(a), lo, hi), y)
    IN  Elementwise2(NMul, Elementwise2(NSub, q, zeropt), scale)

\* Pad with pads = one leading position on axis 0, constant value 0
PadEval(x) ==
    IF x.k # "m" THEN Err
    ELSE M(<<Tab(LAMBDA j : I(0), NCols(x))>> \o x.v)

\* Split along axis 1 into the first channel and the remaining ones
SplitEval(x) ==
    IF x.k # "m" \/ NCols(x) < 2 THEN Err
    ELSE [k |-> "outs",
          v |-> <<M(Tab(LAMBDA i : <<x.v[i][1]>>, NRows(x))),
                  M(Tab(LAMBDA i : Tail(x.v[i]), NRows(x)))>>]

execute_node(node, ins) ==
    LET one(y) == IF y.k = "err" THEN Err ELSE [k |-> "outs", v |-> <<y>>]
    IN  CASE node.op_type = "Relu" ->
               one(Elementwise1(LAMBDA a : NMax(a, I(0)), ins[1]))
          [] node.op_type = "Add" -> one(Elementwise2(NAdd, ins[1], ins[2]))
          [] node.op_type = "Sub" -> one(Elementwise2(NSub, ins[1], ins[2]))
          [] node.op_type = "Mul" -> one(Elementwise2(NMul, ins[1], ins[2]))
          [] node.op_type = "Quant" ->
               one(QuantEval(node, ins[1], ins[2], ins[3], ins[4]))
          [] node.op_type = "Pad" -> one(PadEval(ins[1]))
          [] node.op_type = "Reshape" -> one(ins[1])
          [] node.op_type = "Split" -> SplitEval(ins[1])
          [] OTHER -> Err


(***************************************************************************)
(* Range rules.  A rule returns [ok, rd]: ok is FALSE when the rule raises *)
(* (a failed assertion or an exception), rd is the store it leaves.        *)
(***************************************************************************)
Ok(rd) == [ok |-> TRUE, rd |-> rd]

Fail(rd) == [ok |-> FALSE, rd |-> rd]

SetRange(rd, o, r) == [rd EXCEPT ![o].range = r]

\* proto[...] = b: the bound b broadcast into a tensor of shape ishp
AssignAll(b, ishp) ==
    IF Len(ishp) = 1
    THEN (IF b.k = "s" THEN V(Tab(LAMBDA j : b.v, ishp[1]))
          ELSE IF b.k = "v" /\ BOk(ishp[1], Len(b.v)) /\ BDim(Len(b.v), ishp[1]) = ishp[1]
               THEN V(Tab(LAMBDA j : At(b, 1, j), ishp[1]))
          ELSE Err)
    ELSE IF Len(ishp) = 2
    THEN (IF IsVal(b) /\ BOk(ishp[1], NRows(b)) /\ BOk(ishp[2], NCols(b))
             /\ BDim(NRows(b), ishp[1]) = ishp[1] /\ BDim(NCols(b), ishp[2]) = ishp[2]
          THEN M(Tab(LAMBDA i : Tab(LAMBDA j : At(b, i, j), ishp[2]), ishp[1]))
          ELSE Err)
    ELSE Err

\* for ch in range(n_ch): proto[ch, ...] = b[ch], the channel axis being axis 1
ChanFill(b, ishp) ==
    IF Len(ishp) # 2 THEN Err
    ELSE IF b.k = "v"
         THEN (IF Len(b.v) < ishp[2] THEN Err
               ELSE M(Tab(LAMBDA i : Tab(LAMBDA j : b.v[j], ishp[2]), ishp[1])))
    ELSE IF b.k = "m"
         THEN (IF NRows(b) < ishp[2] \/ ~(NCols(b) = ishp[1] \/ NCols(b) = 1) THEN Err
               ELSE M(Tab(LAMBDA i : Tab(LAMBDA j : b.v[j][IF NCols(b) = 1 THEN 1 ELSE i],
                                         ishp[2]),
                          ishp[1])))
    ELSE Err

\* get_minmax_prototype_tensors: <<proto_min, proto_max>>, or Err
Protos(proto_min, proto_max) ==
    IF proto_min.k = "err" \/ proto_max.k = "err" THEN Err
    ELSE [k |-> "proto", v |-> <<proto_min, proto_max>>]

get_minmax_prototype_tensors(irange, ishp) ==
    IF irange[1].k = "s"
    THEN Protos(AssignAll(irange[1], ishp), AssignAll(irange[2], ishp))
    ELSE IF IsArr(irange[1])
    THEN Protos(ChanFill(irange[1], ishp), ChanFill(irange[2], ishp))
    ELSE Err

RECURSIVE FoldSeq(_, _, _)
FoldSeq(Op(_, _), acc, xs) ==
    IF Len(xs) = 0 THEN acc ELSE FoldSeq(Op, Op(acc, xs[1]), Tail(xs))

\* out.min(axis=0) / out.max(axis=0) of a 2-D tensor, flattened
ReduceAxis0(Op(_, _), out) ==
    IF out.k # "m" \/ NRows(out) = 0 THEN Err
    ELSE V(Tab(LAMBDA j : FoldSeq(Op, out.v[1][j],
                                  Tab(LAMBDA i : out.v[i + 1][j], NRows(out) - 1)),
               NCols(out)))

Flatten(out) ==
    IF out.k = "v" THEN out
    ELSE IF out.k = "s" THEN V(<<out.v>>)
    ELSE IF out.k = "m"
         THEN V(FoldSeq(LAMBDA a, r : a \o r, <<>>, out.v))
    ELSE Err

\* the combinations of itertools.product over n pairs, in its order:
\* combination c picks element Pick(n, c, i) (1 = min, 2 = max) of pair i
Pick(n, c, i) == ((c \div Pow2(n - i)) % 2) + 1

\* the index of the last occurrence of x in xs
LastIndex(xs, x) == CHOOSE i \in 1..Len(xs) : xs[i] = x /\ \A j \in (i + 1)..Len(xs) : xs[j] # x

\* out.min(axis=axes_to_min).flatten(); out.flatten() when no axis is left
Chanwise(Op(_, _), out, ndim) ==
    IF ndim - 1 # 0 THEN ReduceAxis0(Op, out) ELSE Flatten(out)

\* running_min[o] (Op = NMin) or running_max[o] (Op = NMax) over the evaluations outs
Running(Op(_, _), outs, o, ndim) ==
    FoldSeq(LAMBDA acc, c : Elementwise2(Op, Chanwise(Op, outs[c].v[o], ndim), acc),
            Chanwise(Op, outs[1].v[o], ndim),
            Tab(LAMBDA c : c + 1, Len(outs) - 1))

\* for oname in node.output: range = (ctx[oname], ctx[oname]); is_initializer = True
RECURSIVE StoreConst(_, _, _, _)
StoreConst(node, rd, out, o) ==
    IF o > Len(node.output) THEN rd
    ELSE StoreConst(node,
                    [rd EXCEPT ![node.output[o]].range = <<out[o], out[o]>>,
                               ![node.output[o]].is_initializer = TRUE],
                    out, o + 1)

\* for oind, oname in enumerate(node.output): range = (running_min[oind], running_max[oind])
RECURSIVE StoreRunning(_, _, _, _)
StoreRunning(node, rd, running, o) ==
    IF o > Len(node.output) THEN rd
    ELSE StoreRunning(node, SetRange(rd, node.output[o], running[o]), running, o + 1)

\* the evaluator called twice on the constants
EvaluatorCallsTwice(node, m, inits, proto_vectors) == <<inits, inits>>

\* the inputs of the calls of execute_node, in order: the constants alone when
\* no input is dynamic, else one call per combination of
\* itertools.product(*proto_vectors);
\* ctx[dyn_inps[i]] = inps[i]: a name listed twice keeps the last assignment
EvaluatorCalls(node, m, inits, proto_vectors) ==
    LET dyn_inps == DynInputs(node, m)
        n_dyn_inp == Len(dyn_inps)
        Proto(c, i) == proto_vectors[i].v[Pick(n_dyn_inp, c - 1, i)]
    IN  IF n_dyn_inp = 0 THEN <<inits>>
        ELSE Tab(LAMBDA c :
                    Tab(LAMBDA p :
                           IF is_dyn_input(node.input[p], m)
                           THEN Proto(c, LastIndex(dyn_inps, node.input[p]))
                           ELSE inits[p],
                        Len(node.input)),
                 Pow2(n_dyn_inp))

\* ctx = {x: model.get_initializer(x) for x in node.input}
NodeInitializers(node, m) == Tab(LAMBDA p : get_initializer(m, node.input[p]), Len(node.input))

\* proto_vectors: the min-max prototype tensors of the dynamic inputs
ProtoVectors(node, m, rd) ==
    Tab(LAMBDA i :
           IF DynInputs(node, m)[i] \in DOMAIN rd
           THEN get_minmax_prototype_tensors(rd[DynInputs(node, m)[i]].range,
                                             m.shape[DynInputs(node, m)[i]])
           ELSE Err,
        Len(DynInputs(node, m)))

calc_monotonic_range(node, m, rd) ==
    LET dyn_inps == DynInputs(node, m)
        n_dyn_inp == Len(dyn_inps)
        n_out == Len(node.output)
        \* axes_to_min: every axis of the last output except axis 1
        ndim == Len(m.shape[node.output[n_out]])
        Constant(out) ==
            IF out.k = "err" THEN Fail(rd) ELSE Ok(StoreConst(node, rd, out.v, 1))
        Finish(running) ==
            IF \E o \in 1..n_out : running[o][1].k = "err" \/ running[o][2].k = "err"
            THEN Fail(rd)
            ELSE Ok(StoreRunning(node, rd, running, 1))
        Combine(outs) ==
            IF \E c \in 1..Len(outs) : outs[c].k = "err" THEN Fail(rd)
            ELSE Finish(Tab(LAMBDA o : <<Running(NMin, outs, o, ndim),
                                         Running(NMax, outs, o, ndim)>>, n_out))
        EvaluateAll(calls) ==
            Combine(Tab(LAMBDA c : execute_node(node, calls[c]), Len(calls)))
        \* axes_to_min.remove(i_channel_axis) raises unless the output has an axis 1
        Execute(inits, proto_vectors) ==
            IF \E i \in 1..n_dyn_inp : proto_vectors[i].k = "err" THEN Fail(rd)
            ELSE IF ndim < 2 THEN Fail(rd)
            ELSE EvaluateAll(EvaluatorCalls(node, m, inits, proto_vectors))
        Run(inits) ==
            IF n_dyn_inp = 0
            THEN Constant(execute_node(node, EvaluatorCalls(node, m, inits, <<>>)[1]))
            ELSE Execute(inits, ProtoVectors(node, m, rd))
    IN  Run(NodeInitializers(node, m))


(***************************************************************************)
(* Affine rules                                                            *)
(***************************************************************************)
\* the shape of a constant: the declared one, else that of its value
ShapeOf(m, x, w) ==
    IF x \in DOMAIN m.shape THEN m.shape[x]
    ELSE IF w.k = "m" THEN <<NRows(w), NCols(w)>>
    ELSE IF w.k = "v" THEN <<Len(w.v)>>
    ELSE <<>>

Transpose(w) == M(Tab(LAMBDA j : Tab(LAMBDA i : w.v[i][j], NRows(w)), NCols(w)))

\* len(x) of an array
PyLen(x) == IF x.k = "m" THEN NRows(x) ELSE Len(x.v)

\* the range a rule reads from the store: Err when it cannot be unpacked
ReadRange(rd, x) ==
    IF x \notin DOMAIN rd THEN Err
    ELSE IF rd[x].range = NoRange THEN Err
    ELSE [k |-> "range", v |-> rd[x].range]

\* the constant a rule reads as weights or bias, with the rule's assertions
ReadConst(m, rd, x, ndim_ok(_)) ==
    IF x \notin DOMAIN rd THEN Err
    ELSE IF rd[x].range = NoRange THEN Err
    ELSE IF ~rd[x].is_initializer THEN Err
    ELSE IF ~IsArr(rd[x].range[1]) THEN Err
    ELSE IF ~ndim_ok(Len(ShapeOf(m, x, rd[x].range[1]))) THEN Err
    ELSE IF ~AllEq(rd[x].range[1], rd[x].range[2]) THEN Err
    ELSE [k |-> "const", v |-> rd[x].range[1]]

calc_matmul_range(node, m, rd) ==
    LET iname == node.input[1]
        wname == node.input[2]
        oname == node.output[1]
        Store(r) ==
            IF r[1].k = "err" \/ r[2].k = "err" THEN Fail(rd)
            ELSE Ok(SetRange(rd, oname, r))
        \* util function expects (mh, mw) so transpose
        Compute(imin, imax, weights) ==
            IF IsArr(imin) /\ PyLen(imin) # NCols(weights) THEN Fail(rd)
            ELSE Store(calculate_matvec_accumulator_extremum(weights, imin, imax))
        Read(irange, wconst) ==
            IF irange.k = "err" \/ wconst.k = "err" THEN Fail(rd)
            ELSE Compute(irange.v[1], irange.v[2], Transpose(wconst.v))
    IN  Read(ReadRange(rd, iname), ReadConst(m, rd, wname, LAMBDA n : n = 2))

\* x *= y, x += y in place: the result keeps the shape of x
SameShapeAs(x, r) ==
    IF r.k = "err" THEN Err
    ELSE IF Rank(r) # Rank(x) \/ NRows(r) # NRows(x) \/ NCols(r) # NCols(x) THEN Err
    ELSE r

InPlace(Op(_, _), x, y) == SameShapeAs(x, Elementwise2(Op, x, y))

GemmDefaultTransB == 1

calc_gemm_range(node, m, rd) ==
    LET transA == IF HasAttr(node, "transA") THEN node.attr["transA"] ELSE 0
        transB == IF HasAttr(node, "transB") THEN node.attr["transB"] ELSE GemmDefaultTransB
        iname == node.input[1]
        wname == node.input[2]
        has_bias == Len(node.input) > 2
        oname == node.output[1]
        Store(pmin, pmax) ==
            IF pmin.k = "err" \/ pmax.k = "err" THEN Fail(rd)
            ELSE Ok(SetRange(rd, oname, <<pmin, pmax>>))
        \* if there is a bias, apply it to the range
        AddBias(pmin, pmax, beta, bconst) ==
            IF pmin.k = "err" \/ pmax.k = "err" \/ bconst.k = "err" THEN Fail(rd)
            ELSE Store(InPlace(NAdd, pmin, Elementwise2(NMul, beta, bconst.v)),
                       InPlace(NAdd, pmax, Elementwise2(NMul, beta, bconst.v)))
        Bias(pmin, pmax) ==
            IF has_bias
            THEN AddBias(pmin, pmax, S(node.attr["beta"]),
                         ReadConst(m, rd, node.input[3], LAMBDA n : n = 1))
            ELSE Store(pmin, pmax)
        \* apply Gemm scale factors to matrix multiply output
        Scale(p, alpha) == Bias(InPlace(NMul, p[1], alpha), InPlace(NMul, p[2], alpha))
        Compute(imin, imax, weights) ==
            IF IsArr(imin) /\ PyLen(imin) # NCols(weights) THEN Fail(rd)
            ELSE Scale(calculate_matvec_accumulator_extremum(weights, imin, imax),
                       S(node.attr["alpha"]))
        Read(irange, wconst) ==
            IF irange.k = "err" \/ wconst.k = "err" THEN Fail(rd)
            ELSE Compute(irange.v[1], irange.v[2], wconst.v)
    IN  IF ~HasAttr(node, "alpha") \/ ~HasAttr(node, "beta") THEN Fail(rd)
        ELSE IF ~(transA = 0 /\ transB # 0) THEN Fail(rd)
        ELSE Read(ReadRange(rd, iname), ReadConst(m, rd, wname, LAMBDA n : n = 2))

\* np.repeat(x, k) of a flattened array: every element k times
RepeatFlat(f, k) == V(Tab(LAMBDA j : f.v[((j - 1) \div k) + 1], Len(f.v) * k))

Repeat(x, k) == RepeatFlat(Flatten(x), k)

\* the whole array in place of x[a:b]
SliceWhole(x, a, b) == x

\* x[a:b] of a 1-D array, python's clamping included
Slice(x, a, b) ==
    V(Tab(LAMBDA j : x.v[a + j], (IF b < Len(x.v) THEN b ELSE Len(x.v)) - a))

\* dw_ret[0].item(), dw_ret[1].item(): <<min, max>> of one output channel, or Err
Items(dw_ret) ==
    IF dw_ret[1].k = "err" \/ dw_ret[2].k = "err" THEN Err
    ELSE IF Len(dw_ret[1].v) # 1 \/ Len(dw_ret[2].v) # 1 THEN Err
    ELSE [k |-> "item", v |-> <<dw_ret[1].v[1], dw_ret[2].v[1]>>]

\* ret = (np.asarray(dw_ret_min), np.asarray(dw_ret_max)) from the channels' items
ConvStore(rd, oname, dw) ==
    IF \E i \in 1..Len(dw) : dw[i].k = "err" THEN Fail(rd)
    ELSE Ok(SetRange(rd, oname, <<V(Tab(LAMBDA i : dw[i].v[1], Len(dw))),
                                  V(Tab(LAMBDA i : dw[i].v[2], Len(dw)))>>))

calc_conv_range(node, m, rd) ==
    LET iname == node.input[1]
        wname == node.input[2]
        oname == node.output[1]
        groups == IF HasAttr(node, "group") THEN node.attr["group"] ELSE 1
        \* TODO smarter check, other kinds of grouped convs out there..
        is_depthwise == groups > 1
        Channels(weights, conv_ofm, k_total, imin_rep, imax_rep) ==
            ConvStore(rd, oname,
                Tab(LAMBDA i :
                       Items(calculate_matvec_accumulator_extremum(
                                M(<<weights.v[i]>>),
                                IF is_depthwise /\ IsArr(imin_rep)
                                THEN Slice(imin_rep, (i - 1) * k_total, i * k_total)
                                ELSE imin_rep,
                                IF is_depthwise /\ IsArr(imin_rep)
                                THEN Slice(imax_rep, (i - 1) * k_total, i * k_total)
                                ELSE imax_rep)),
                    conv_ofm))
        Replicate(imin, imax, weights, conv_ofm, k_total) ==
            Channels(weights, conv_ofm, k_total,
                     IF IsArr(imin) THEN Repeat(imin, k_total) ELSE imin,
                     IF IsArr(imin) THEN Repeat(imax, k_total) ELSE imax)
        \* weights.reshape(conv_ofm, -1): constants are kept in this form
        Reshape(imin, imax, weights, wshape) ==
            IF wshape[2] = 0 THEN Fail(rd)
            ELSE Replicate(imin, imax, weights, wshape[1], NCols(weights) \div wshape[2])
        Read(irange, wconst) ==
            IF irange.k = "err" \/ wconst.k = "err" THEN Fail(rd)
            ELSE Reshape(irange.v[1], irange.v[2], wconst.v, ShapeOf(m, wname, wconst.v))
    IN  IF Len(node.input) # 2 THEN Fail(rd)
        ELSE Read(ReadRange(rd, iname), ReadConst(m, rd, wname, LAMBDA n : n >= 2))

\* weights.transpose(1, 0, 2, 3).reshape(conv_ofm, -1) of (ifm, ofm, k...) weights
\* kept as ifm rows of ofm * k_total columns
TransposeConvWeights(w, conv_ofm, conv_ifm) ==
    M(Tab(LAMBDA o :
             Tab(LAMBDA c :
                    w.v[((c - 1) \div (NCols(w) \div conv_ofm)) + 1]
                       [(o - 1) * (NCols(w) \div conv_ofm)
                        + ((c - 1) % (NCols(w) \div conv_ofm)) + 1],
                 conv_ifm * (NCols(w) \div conv_ofm)),
          conv_ofm))

calc_convtranspose_range(node, m, rd) ==
    LET iname == node.input[1]
        wname == node.input[2]
        oname == node.output[1]
        groups == IF HasAttr(node, "group") THEN node.attr["group"] ELSE 1
        Channels(weights, conv_ofm, imin_rep, imax_rep) ==
            ConvStore(rd, oname,
                Tab(LAMBDA i :
                       Items(calculate_matvec_accumulator_extremum(
                                M(<<weights.v[i]>>), imin_rep, imax_rep)),
                    conv_ofm))
        Replicate(imin, imax, weights, conv_ofm, k_total) ==
            Channels(weights, conv_ofm,
                     IF IsArr(imin) THEN Repeat(imin, k_total) ELSE imin,
                     IF IsArr(imin) THEN Repeat(imax, k_total) ELSE imax)
        Reshape(imin, imax, weights, conv_ofm, conv_ifm) ==
            Replicate(imin, imax, weights, conv_ofm, NCols(weights) \div conv_ifm)
        Shaped(imin, imax, w, wshape) ==
            IF Len(wshape) # 4 THEN Fail(rd)
            ELSE IF wshape[1] = 0 \/ wshape[2] = 0 THEN Fail(rd)
            ELSE Reshape(imin, imax, TransposeConvWeights(w, wshape[2], wshape[1]),
                         wshape[2], wshape[1])
        Read(irange, wconst) ==
            IF irange.k = "err" \/ wconst.k = "err" THEN Fail(rd)
            ELSE IF groups # 1 THEN Fail(rd)
            ELSE Shaped(irange.v[1], irange.v[2], wconst.v, ShapeOf(m, wname, wconst.v))
    IN  IF Len(node.input) # 2 THEN Fail(rd)
        ELSE Read(ReadRange(rd, iname), ReadConst(m, rd, wname, LAMBDA n : n >= 2))

calc_range_outdtype(node, m, rd) ==
    LET oname == node.output[1]
        odt == m.dtype[oname]
    IN  IF odt = None THEN Fail(rd)
        ELSE Ok(SetRange(rd, oname, <<S(I(DataTypeMin(odt))), S(I(DataTypeMax(odt)))>>))

calc_range_all_initializers(m, rd) ==
    [x \in DOMAIN rd \cup DOMAIN m.init |->
       IF x \in DOMAIN m.init
       THEN LET tensor_init == m.init[x]
                whole == \A i \in 1..NRows(tensor_init), j \in 1..NCols(tensor_init) :
                            IsWhole(At(tensor_init, i, j))
            IN  IF whole
                THEN [range |-> <<tensor_init, tensor_init>>,
                      int_range |-> <<tensor_init, tensor_init>>,
                      scale |-> V(<<I(1)>>), bias |-> V(<<I(0)>>),
                      is_initializer |-> TRUE]
                ELSE [RangeInfo EXCEPT !.range = <<tensor_init, tensor_init>>,
                                       !.is_initializer = TRUE]
       ELSE rd[x]]

MonotonicOps ==
    {"Transpose", "Flatten", "Reshape", "Quant", "BipolarQuant", "Mul", "Sub", "Div",
     "Add", "BatchNormalization", "Relu", "Pad", "AveragePool", "MaxPool", "Resize",
     "Upsample", "GlobalAveragePool", "QuantizeLinear", "DequantizeLinear", "Clip",
     "Sigmoid", "Concat", "Split"}

\* optype_to_range_calc.keys()
RegisteredOps ==
    MonotonicOps \cup {"MatMul", "Conv", "ConvTranspose", "QuantMaxNorm", "Trunc", "Gemm"}

\* optype_to_range_calc[node.op_type](node, model, range_dict)
range_calc_fxn(node, m, rd) ==
    CASE node.op_type = "MatMul" -> calc_matmul_range(node, m, rd)
      [] node.op_type = "Conv" -> calc_conv_range(node, m, rd)
      [] node.op_type = "ConvTranspose" -> calc_convtranspose_range(node, m, rd)
      [] node.op_type \in {"QuantMaxNorm", "Trunc"} -> calc_range_outdtype(node, m, rd)
      [] node.op_type = "Gemm" -> calc_gemm_range(node, m, rd)
      [] OTHER -> calc_monotonic_range(node, m, rd)


\* for node_out in node.output: range_dict[node_out] = RangeInfo()
RECURSIVE CreateOutputs(_, _, _)
CreateOutputs(node, rd, i) ==
    IF i > Len(node.output) THEN rd
    ELSE CreateOutputs(node, Put(rd, node.output[i], RangeInfo), i + 1)

(***************************************************************************)
(* The scaled-integer rules.  A rule returns [ok, rd] like a range rule;   *)
(* a missing store entry (KeyError) or a missing range (TypeError) is a    *)
(* raised exception.                                                       *)
(***************************************************************************)
SetIntIntoRange(rd, o, int_range, scale, bias) ==
    [rd EXCEPT ![o].range = int_range, ![o].int_range = int_range, ![o].scale = scale,
               ![o].bias = bias]

SetInt(rd, o, int_range, scale, bias) ==
    [rd EXCEPT ![o].int_range = int_range, ![o].scale = scale, ![o].bias = bias]

\* [range_dict[x].has_integer_info() for x in node.input]
check_int_inputs(node, rd) ==
    IF \E i \in 1..Len(node.input) : node.input[i] \notin DOMAIN rd THEN Err
    ELSE [k |-> "list",
          v |-> Tab(LAMBDA i : has_integer_info(rd[node.input[i]]), Len(node.input))]

AnyTrue(bs) == \E i \in 1..Len(bs) : bs[i]

AllTrue(bs) == \A i \in 1..Len(bs) : bs[i]

\* inp_int_info.index(True)
IndexTrue(bs) == CHOOSE i \in 1..Len(bs) : bs[i] /\ \A j \in 1..(i - 1) : ~bs[j]

\* np.round(x) of a tensor
Round(x) == Elementwise1(NRound, x)

NarrowRangeAdjAnySign(node) == IF node.attr["narrow"] = 1 THEN 1 ELSE 0

\* lines 445-448
narrow_range_adj(node) ==
    IF node.attr["narrow"] = 1 /\ node.attr["signed"] = 1 THEN 1 ELSE 0

calc_intrange_quant(node, m, rd) ==
    LET o == node.output[1]
        signed == node.attr["signed"] = 1
        \* odt_int_type = qnt_node_inst.get_integer_datatype(model)
        odt_int_type(q_bitwidth) == [signed |-> signed, bits |-> At(q_bitwidth, 1, 1).n]
        Assign(rds, int_range) ==
            IF int_range[1].k = "err" \/ int_range[2].k = "err" THEN Fail(rds)
            ELSE Ok([rds EXCEPT ![o].int_range = int_range])
        Constant(rds, q_out_int) == Assign(rds, <<q_out_int, q_out_int>>)
        IntRange(rds, q_scale, q_zeropt, q_bitwidth) ==
            IF rds[o].is_initializer
            THEN (IF rds[o].range = NoRange THEN Fail(rds)
                  ELSE IF ~AllEq(rds[o].range[1], rds[o].range[2]) THEN Fail(rds)
                  ELSE Constant(rds, Round(Elementwise2(NAdd,
                                              Elementwise2(NDiv, rds[o].range[1], q_scale),
                                              q_zeropt))))
            ELSE IF PyLen(q_bitwidth) # 1 THEN Fail(rds)
            ELSE Assign(rds, <<S(I(DataTypeMin(odt_int_type(q_bitwidth)) + narrow_range_adj(node))),
                               S(I(DataTypeMax(odt_int_type(q_bitwidth))))>>)
        ScaleBias(q_scale, q_zeropt, q_bitwidth, bias) ==
            IF bias.k = "err" THEN Fail(rd)
            ELSE IntRange([rd EXCEPT ![o].scale = q_scale, ![o].bias = bias],
                          q_scale, q_zeropt, q_bitwidth)
        Params(q_scale, q_zeropt, q_bitwidth) ==
            IF q_bitwidth = None THEN Fail(rd)
            ELSE IF Rank(q_bitwidth) > 1 THEN Fail(rd)
            ELSE IF q_zeropt = None \/ q_scale = None THEN Fail(rd)
            ELSE ScaleBias(q_scale, q_zeropt, q_bitwidth,
                           Elementwise1(NNeg, Elementwise2(NMul, q_scale, q_zeropt)))
    IN  IF o \notin DOMAIN rd THEN Fail(rd)
        ELSE IF Len(node.input) < 4 THEN Fail(rd)
        ELSE Params(get_initializer(m, node.input[2]), get_initializer(m, node.input[3]),
                    get_initializer(m, node.input[4]))

calc_intrange_relu(node, m, rd) ==
    LET o == node.output[1]
        Assign(irange_inf, int_range_min, int_range_max) ==
            IF int_range_min.k = "err" \/ int_range_max.k = "err" THEN Fail(rd)
            ELSE Ok(SetInt(rd, o, <<int_range_min, int_range_max>>,
                           irange_inf.scale, irange_inf.bias))
        \* int_range_min = (range_min - B) / S, int_range_max = (range_max - B) / S
        Infer(irange_inf) ==
            IF o \notin DOMAIN rd THEN Fail(rd)
            ELSE IF rd[o].range = NoRange THEN Fail(rd)
            ELSE Assign(irange_inf,
                        Round(Elementwise2(NDiv,
                                 Elementwise2(NSub, rd[o].range[1], irange_inf.bias),
                                 irange_inf.scale)),
                        Round(Elementwise2(NDiv,
                                 Elementwise2(NSub, rd[o].range[2], irange_inf.bias),
                                 irange_inf.scale)))
        Inputs(inp_int_info) ==
            IF inp_int_info.k = "err" THEN Fail(rd)
            ELSE IF ~AnyTrue(inp_int_info.v) THEN Ok(rd)
            ELSE Infer(rd[node.input[IndexTrue(inp_int_info.v)]])
    IN  Inputs(check_int_inputs(node, rd))

\* S = (range_max - range_min) / (int_range_max - int_range_min),
\* B = range_max - S * int_range_max, written to output o of the store rds
ScaleAndBias(rds, o, range, int_range) ==
    LET Bias(scale, bias) ==
            IF bias.k = "err" THEN Fail(rds)
            ELSE Ok([rds EXCEPT ![o].scale = scale, ![o].bias = bias])
        Scale(scale) ==
            IF scale.k = "err" THEN Fail(rds)
            ELSE Bias(scale, Elementwise2(NSub, range[2],
                                          Elementwise2(NMul, scale, int_range[2])))
    IN  IF range = NoRange \/ int_range = NoRange THEN Fail(rds)
        ELSE Scale(Elementwise2(NDiv, Elementwise2(NSub, range[2], range[1]),
                                Elementwise2(NSub, int_range[2], int_range[1])))

\* (x >= 0).all()
AllNonNeg(x) ==
    IsVal(x) /\ \A i \in 1..NRows(x), j \in 1..NCols(x) : NLe(I(0), At(x, i, j))

\* int_range_dict: a fresh entry per output, the inputs' integer ranges as ranges
RECURSIVE IntRangeDict(_, _, _, _)
IntRangeDict(node, rd, ird, i) ==
    IF i > Len(node.input) THEN ird
    ELSE IntRangeDict(node, rd,
                      Put(ird, node.input[i],
                          [RangeInfo EXCEPT !.range = rd[node.input[i]].int_range,
                                            !.is_initializer = rd[node.input[i]].is_initializer]),
                      i + 1)

\* optype_to_range_calc[node.op_type](node, model, range_dict): the rules of the
\* operators calc_intrange maps to calc_intrange_linear
linear_range_calc_fxn(node, m, rd) ==
    CASE node.op_type = "MatMul" -> calc_matmul_range(node, m, rd)
      [] node.op_type = "Conv" -> calc_conv_range(node, m, rd)
      [] OTHER -> calc_monotonic_range(node, m, rd)

calc_intrange_linear_allint(node, m, rd) ==
    LET o == node.output[1]
        Deduce(int_ran) ==
            IF ~int_ran.ok THEN Fail(rd)
            ELSE IF o \notin DOMAIN rd THEN Fail(rd)
            ELSE ScaleAndBias([rd EXCEPT ![o].int_range = int_ran.rd[o].range], o,
                              rd[o].range, int_ran.rd[o].range)
    IN  IF \E i \in 1..Len(node.input) :
              \/ ~AllNonNeg(rd[node.input[i]].scale)
              \/ ~AllEq(rd[node.input[i]].bias, S(I(0)))
        THEN Fail(rd)
        ELSE IF Len(node.output) = 0 \/ o \notin DOMAIN rd THEN Fail(rd)
        ELSE Deduce(linear_range_calc_fxn(node, m,
                       IntRangeDict(node, rd, CreateOutputs(node, <<>>, 1), 1)))

calc_intrange_linear(node, m, rd) ==
    LET o == node.output[1]
        \* mix of integer and non-integer inputs: the int part remains untouched
        Mixed(irange_inf) ==
            IF o \notin DOMAIN rd THEN Fail(rd)
            ELSE ScaleAndBias([rd EXCEPT ![o].int_range = irange_inf.int_range], o,
                              rd[o].range, irange_inf.int_range)
        Inputs(inp_int_info) ==
            IF inp_int_info.k = "err" THEN Fail(rd)
            ELSE IF AllTrue(inp_int_info.v) THEN calc_intrange_linear_allint(node, m, rd)
            ELSE IF ~AnyTrue(inp_int_info.v) THEN Ok(rd)
            ELSE Mixed(rd[node.input[IndexTrue(inp_int_info.v)]])
    IN  Inputs(check_int_inputs(node, rd))

RECURSIVE CopyInt(_, _, _, _)
CopyInt(node, rd, irange_inf, i) ==
    IF i > Len(node.output) THEN Ok(rd)
    ELSE IF node.output[i] \notin DOMAIN rd THEN Fail(rd)
    ELSE CopyInt(node,
                 SetInt(rd, node.output[i], irange_inf.int_range, irange_inf.scale,
                        irange_inf.bias),
                 irange_inf, i + 1)

calc_intrange_identity(node, m, rd) ==
    LET n_dyn_inps == Len(SelectSeq(node.input, LAMBDA x : get_initializer(m, x) = None))
    IN  IF n_dyn_inps # 1 THEN Fail(rd)
        ELSE IF node.input[1] \notin DOMAIN rd THEN Fail(rd)
        ELSE CopyInt(node, rd, rd[node.input[1]], 1)

\* intrange_mapping.keys()
IntRangeOps ==
    {"Conv", "MatMul", "BatchNormalization", "Add", "Relu", "Quant", "Pad", "MaxPool",
     "Reshape"}

\* intrange_mapping[node.op_type](node, model, range_dict)
intrange_calc_fxn(node, m, rd) ==
    CASE node.op_type = "Relu" -> calc_intrange_relu(node, m, rd)
      [] node.op_type = "Quant" -> calc_intrange_quant(node, m, rd)
      [] node.op_type \in {"Pad", "MaxPool", "Reshape"} -> calc_intrange_identity(node, m, rd)
      [] OTHER -> calc_intrange_linear(node, m, rd)


(***************************************************************************)
(* The Conv and Gemm rules on their own: a node, its constants and the     *)
(* interval of its input are drawn, the store is prepared as the walker    *)
(* prepares it (initializers seeded, output entries created), and the rule *)
(* is applied once.                                                        *)
(***************************************************************************)
\* the alpha factors of the Gemm nodes
GemmAlphas == {1, -1}

\* an optional attribute: <<>> when the node does not declare it
AttrOf(name, opt) == IF opt = <<>> THEN <<>> ELSE (name :> opt[1])

RuleNode(op, ins, attr) ==
    [name |-> <<"n">>, op_type |-> op, input |-> ins, output |-> <<<<"o">>>>, attr |-> attr]

RuleModel(node, consts, shapes) ==
    [node |-> <<node>>, init |-> consts, input |-> <<<<"x">>>>, shape |-> shapes,
     dtype |-> [x \in DOMAIN shapes |-> None]]

RuleStore(node, m, irange) ==
    CreateOutputs(node,
                  calc_range_all_initializers(m, <<"x">> :> [RangeInfo EXCEPT !.range = irange]),
                  1)

RuleArg(fn, node, m, irange) ==
    [fn |-> fn, node |-> node, m |-> m, irange |-> irange, rd |-> RuleStore(node, m, irange)]

\* the matrices of a shape over the coefficients vals
Mats(sh, vals) == {NumMat(im) : im \in IntMat(sh, vals)}

\* per-channel intervals over n channels with min <= max
PcRanges(n) ==
    {<<NumVec(lo), NumVec(hi)>> :
        <<lo, hi>> \in {p \in [1..n -> IvalVals] \X [1..n -> IvalVals] :
                         \A j \in 1..n : p[1][j] <= p[2][j]}}

ScRanges == {<<S(I(lo)), S(I(hi))>> : <<lo, hi>> \in {p \in IvalVals \X IvalVals : p[1] <= p[2]}}

\* Conv: weights of declared shape (ofm, ifm per group, k), kept as ofm rows
ConvCoefs == {-1, 1}

ConvWeights ==
    {[shape |-> <<2, 1, 1>>, w |-> w] : w \in Mats(<<2, 1>>, ConvCoefs)}
    \cup {[shape |-> <<2, 1, 2>>, w |-> w] : w \in Mats(<<2, 2>>, ConvCoefs)}
    \cup {[shape |-> <<2, 2, 1>>, w |-> NumMat(<<<<1, -1>>, <<1, 1>>>>)],
          [shape |-> <<2, 2, 1>>, w |-> NumMat(<<<<-1, 1>>, <<-1, -1>>>>)],
          [shape |-> <<4, 2, 1>>, w |-> NumMat(<<<<1, -1>>, <<1, 1>>, <<-1, 1>>, <<-1, -1>>>>)]}

ConvGroups == {<<>>, <<1>>, <<2>>}

ConvIRanges ==
    ScRanges \cup PcRanges(2)
    \cup {<<NumVec(<<0, -1, 0, -1>>), NumVec(<<1, 1, 0, 1>>)>>}

InitConv ==
    /\ WalkerIdle
    /\ \E cw \in ConvWeights, group \in ConvGroups, has_bias \in BOOLEAN, ir \in ConvIRanges :
          arg = RuleArg("conv",
                        RuleNode("Conv",
                                 IF has_bias THEN <<<<"x">>, <<"w">>, <<"b">>>>
                                 ELSE <<<<"x">>, <<"w">>>>,
                                 AttrOf("group", group)),
                        RuleModel(RuleNode("Conv", <<<<"x">>, <<"w">>>>, <<>>),
                                  IF has_bias
                                  THEN (<<"w">> :> cw.w) @@ (<<"b">> :> NumVec(<<1, 0>>))
                                  ELSE (<<"w">> :> cw.w),
                                  (<<"w">> :> cw.shape) @@ (<<"x">> :> <<1, IF ir[1].k = "s" THEN cw.shape[2] ELSE Len(ir[1].v)>>)
                                  @@ (<<"o">> :> <<1, cw.shape[1]>>)),
                        ir)
    /\ res = None

ApplyConv ==
    /\ arg.fn = "conv"
    /\ res = None
    /\ res' = [k |-> "ran", ran |-> calc_conv_range(arg.node, arg.m, arg.rd)]
    /\ UNCHANGED <<walker_vars, arg>>

SpecConv == InitConv /\ [][ApplyConv]_vars

\* Gemm: 2 x 2 weights and a bias of two elements
GemmFlags == {<<>>, <<0>>, <<1>>}

GemmIRanges == {<<S(I(0)), S(I(1))>>, <<S(I(-1)), S(I(1))>>, <<NumVec(<<0, -1>>), NumVec(<<1, 1>>)>>}

InitGemm ==
    /\ WalkerIdle
    /\ \E w \in Mats(<<2, 2>>, CoefVals), transA \in GemmFlags, transB \in GemmFlags,
          alpha \in GemmAlphas, has_bias \in BOOLEAN, ir \in GemmIRanges :
          arg = RuleArg("gemm",
                        RuleNode("Gemm",
                                 IF has_bias THEN <<<<"x">>, <<"w">>, <<"b">>>>
                                 ELSE <<<<"x">>, <<"w">>>>,
                                 AttrOf("transA", transA) @@ AttrOf("transB", transB)
                                 @@ [alpha |-> I(alpha), beta |-> I(1)]),
                        RuleModel(RuleNode("Gemm", <<<<"x">>, <<"w">>>>, <<>>),
                                  IF has_bias
                                  THEN (<<"w">> :> w) @@ (<<"b">> :> NumVec(<<1, 0>>))
                                  ELSE (<<"w">> :> w),
                                  (<<"w">> :> <<2, 2>>) @@ (<<"x">> :> <<1, 2>>)
                                  @@ (<<"o">> :> <<1, 2>>)),
                        ir)
    /\ res = None

ApplyGemm ==
    /\ arg.fn = "gemm"
    /\ res = None
    /\ res' = [k |-> "ran", ran |-> calc_gemm_range(arg.node, arg.m, arg.rd)]
    /\ UNCHANGED <<walker_vars, arg>>

SpecGemm == InitGemm /\ [][ApplyGemm]_vars


(***************************************************************************)
(* Properties of the Conv and Gemm rules                                   *)
(***************************************************************************)
ConvApplied == arg # None /\ arg.fn = "conv" /\ res # None

ConvOfm == arg.m.shape[<<"w">>][1]

ConvGroup == IF HasAttr(arg.node, "group") THEN arg.node.attr["group"] ELSE 1

\* the rule stopped and the output's entry holds no range
FailedFast == ~res.ran.ok /\ res.ran.rd[<<"o">>].range = NoRange

ConvUnsupported ==
    \/ Len(arg.node.input) > 2
    \/ ConvGroup > 1 /\ ConvGroup # ConvOfm

\* C7: the convolution rule fails fast, writing no range for its output, for
\* a node with a bias input and for a group count greater than 1 that differs
\* from the number of output channels, whatever the input interval and the
\* kernel size.
C7_ConvUnsupportedFails == (ConvApplied /\ ConvUnsupported) => FailedFast

DepthwiseCase ==
    /\ ConvApplied
    /\ Len(arg.node.input) = 2
    /\ HasAttr(arg.node, "group") /\ arg.node.attr["group"] = ConvOfm
    /\ arg.irange[1].k = "v" /\ Len(arg.irange[1].v) >= ConvOfm

\* bound b (1: min, 2: max) of input channel i, n times
OwnChannel(ir, i, b, n) == V(Tab(LAMBDA j : ir[b].v[i], n))

\* the kernel on weight row i and input channel i alone
OwnExtremum(i) ==
    LET row == arg.m.init[<<"w">>].v[i]
    IN  calculate_matvec_accumulator_extremum(M(<<row>>),
                                              OwnChannel(arg.irange, i, 1, Len(row)),
                                              OwnChannel(arg.irange, i, 2, Len(row)))

\* the intervals of a single value
PointRanges == {<<S(I(v)), S(I(v))>> : v \in IvalVals}

\* arg.irange with the bounds of channel j replaced by the interval other
WithChannel(j, other) ==
    <<V([arg.irange[1].v EXCEPT ![j] = other[1].v]),
      V([arg.irange[2].v EXCEPT ![j] = other[2].v])>>

\* C8: for a depthwise convolution with a per-channel input interval, the
\* bounds of output channel i are the kernel applied to weight row i and the
\* bounds of input channel i replicated over the kernel volume; changing the
\* bounds of another input channel j leaves output channel i unchanged.
C8_DepthwiseOwnChannel ==
    DepthwiseCase =>
        /\ res.ran.ok
        /\ LET out == res.ran.rd[<<"o">>].range
               Own(i, own) == out[1].v[i] = own[1].v[1] /\ out[2].v[i] = own[2].v[1]
               Same(j, again) ==
                   /\ again.ok
                   /\ \A i \in (1..ConvOfm) \ {j} :
                         /\ again.rd[<<"o">>].range[1].v[i] = out[1].v[i]
                         /\ again.rd[<<"o">>].range[2].v[i] = out[2].v[i]
           IN  /\ out[1].k = "v" /\ Len(out[1].v) = ConvOfm
               /\ out[2].k = "v" /\ Len(out[2].v) = ConvOfm
               /\ \A i \in 1..ConvOfm : Own(i, OwnExtremum(i))
               /\ \A j \in 1..Len(arg.irange[1].v), other \in PointRanges :
                     Same(j, calc_conv_range(arg.node, arg.m,
                                             SetRange(arg.rd, <<"x">>, WithChannel(j, other))))

\* a depthwise convolution over two taps whose input channels have different
\* bounds and whose output channels differ
C8_Witness ==
    /\ DepthwiseCase
    /\ arg.m.shape[<<"w">>] = <<2, 1, 2>>
    /\ Len(arg.irange[1].v) = 2
    /\ arg.irange[1].v[1] # arg.irange[1].v[2]
    /\ arg.irange[2].v[1] # arg.irange[2].v[2]
    /\ res.ran.ok
    /\ res.ran.rd[<<"o">>].range[1].v[1] # res.ran.rd[<<"o">>].range[1].v[2]
    /\ res.ran.rd[<<"o">>].range[2].v[1] # res.ran.rd[<<"o">>].range[2].v[2]

GemmApplied == arg # None /\ arg.fn = "gemm" /\ res # None

\* the node declares input-not-transposed and weight-transposed
GemmSupported ==
    /\ ~HasAttr(arg.node, "transA") \/ arg.node.attr["transA"] = 0
    /\ HasAttr(arg.node, "transB") /\ arg.node.attr["transB"] = 1

\* C9: the Gemm rule fails fast, writing no range for its output, for every
\* transpose-flag combination other than transA = 0 with transB = 1, a node
\* that declares no transB flag included.
C9_GemmUnsupportedFails == (GemmApplied /\ ~GemmSupported) => FailedFast


(***************************************************************************)
(* range_analysis: seeding, the walk over the nodes, the report.           *)
(*   opts = [irange, scaled_int]; irange is None (""), a pair              *)
(*   [k |-> "tuple", v |-> <<min, max>>] or [k |-> "info", v |-> RangeInfo]*)
(***************************************************************************)
\* for inp in model.graph.input: ... ; cur is <<range_min, range_max>>
RECURSIVE SeedInputs(_, _, _, _, _)
SeedInputs(m, irange, i, cur, rd) ==
    IF i > Len(m.input) THEN Ok(rd)
    ELSE LET iname == m.input[i]
         IN  IF irange.k = "info"
             THEN SeedInputs(m, irange, i + 1, cur, Put(rd, iname, irange.v))
             ELSE IF cur[1] = None \/ cur[2] = None
             THEN LET idt == m.dtype[iname]
                      seeded == <<S(I(DataTypeMin(idt))), S(I(DataTypeMax(idt)))>>
                  IN  IF idt = None THEN Fail(rd)
                      ELSE SeedInputs(m, irange, i + 1, seeded,
                                      Put(rd, iname, [RangeInfo EXCEPT !.range = seeded]))
             ELSE SeedInputs(m, irange, i + 1, cur,
                             Put(rd, iname, [RangeInfo EXCEPT !.range = cur]))

AfterWalk == IF opts.scaled_int /\ Len(model.node) > 0 THEN "intrange" ELSE "report"

SeedRanges ==
    /\ pc = "start"
    /\ LET cur == IF opts.irange.k = "tuple" THEN opts.irange.v ELSE NoRange
           seeded == SeedInputs(model, opts.irange, 1, cur, <<>>)
       IN  IF seeded.ok
           THEN /\ range_dict' = calc_range_all_initializers(model, seeded.rd)
                /\ pc' = IF Len(model.node) = 0 THEN AfterWalk ELSE "walk"
           ELSE /\ range_dict' = seeded.rd
                /\ pc' = "failed"
    /\ idx' = 1
    /\ UNCHANGED <<model, opts, stuck_chans, ret, arg, res>>

\* np.nonzero(out_range[0] == out_range[1])[0] of a per-channel interval,
\* zipped with out_range[0] at those channels (channels count from 0)
RECURSIVE StuckFrom(_, _, _)
StuckFrom(rmin, rmax, j) ==
    IF j > Len(rmin.v) THEN <<>>
    ELSE (IF NEq(rmin.v[j], At(rmax, 1, j)) THEN <<<<j - 1, rmin.v[j]>>>> ELSE <<>>)
         \o StuckFrom(rmin, rmax, j + 1)

\* lines 661-670 on the first output: [ok, rd, sc]
\* numpy_0d_nonzero: whether this numpy still answers nonzero() of a 0-d value
PostProcess(node, rd, sc, numpy_0d_nonzero) ==
    LET o == node.output[1]
        out_range == rd[o].range
        bad == [ok |-> FALSE, rd |-> rd, sc |-> sc]
        Simplified(simp, list_stuck) ==
            IF simp[1].k = "err" THEN bad
            ELSE [ok |-> TRUE,
                  rd |-> SetRange(rd, o, simp),
                  sc |-> IF Len(list_stuck) > 0 THEN Put(sc, o, list_stuck) ELSE sc]
    IN  IF rd[o].is_initializer THEN [ok |-> TRUE, rd |-> rd, sc |-> sc]
        ELSE IF out_range = NoRange THEN bad
        ELSE IF out_range[1].k = "v" /\ out_range[2].k \in {"s", "v"}
                /\ BOk(Len(out_range[1].v), NCols(out_range[2]))
                /\ BDim(NCols(out_range[2]), Len(out_range[1].v)) = Len(out_range[1].v)
        THEN Simplified(simplify_range(out_range), StuckFrom(out_range[1], out_range[2], 1))
        ELSE IF out_range[1].k = "s" /\ out_range[2].k = "s"
                /\ numpy_0d_nonzero /\ ~NEq(out_range[1].v, out_range[2].v)
        THEN Simplified(simplify_range(out_range), <<>>)
        ELSE bad

\* one iteration of "for node in model.graph.node" (lines 649-672)
WalkNode ==
    /\ pc = "walk"
    /\ LET node == model.node[idx]
           dyn_inputs == DynInputs(node, model)
           inprange_ok == \A i \in 1..Len(dyn_inputs) : dyn_inputs[i] \in DOMAIN range_dict
           op_ok == node.op_type \in RegisteredOps
           next_pc == IF idx = Len(model.node) THEN AfterWalk ELSE "walk"
           next_idx == IF idx = Len(model.node) THEN 1 ELSE idx + 1
       IN  IF inprange_ok /\ op_ok
           THEN \E ran \in {range_calc_fxn(node, model, CreateOutputs(node, range_dict, 1))} :
                IF ~ran.ok
                THEN /\ range_dict' = ran.rd
                     /\ pc' = "failed"
                     /\ UNCHANGED <<stuck_chans, idx>>
                ELSE \E numpy_0d_nonzero \in BOOLEAN :
                     \E post \in {PostProcess(node, ran.rd, stuck_chans, numpy_0d_nonzero)} :
                        IF ~post.ok
                        THEN /\ range_dict' = post.rd
                             /\ pc' = "failed"
                             /\ UNCHANGED <<stuck_chans, idx>>
                        ELSE /\ range_dict' = post.rd
                             /\ stuck_chans' = post.sc
                             /\ pc' = next_pc
                             /\ idx' = next_idx
           ELSE \* warn("Skipping ...")
                /\ pc' = next_pc
                /\ idx' = next_idx
                /\ UNCHANGED <<range_dict, stuck_chans>>
    /\ UNCHANGED <<model, opts, ret, arg, res>>

\* one iteration of calc_intrange's "for node in model.graph.node" (lines 577-584)
IntRangeNode ==
    /\ pc = "intrange"
    /\ LET node == model.node[idx]
           op_ok == node.op_type \in IntRangeOps
       IN  IF op_ok
           THEN \E ran \in {intrange_calc_fxn(node, model, range_dict)} :
                   /\ range_dict' = ran.rd
                   /\ IF ~ran.ok
                      THEN pc' = "failed" /\ idx' = idx
                      ELSE /\ pc' = IF idx = Len(model.node) THEN "report" ELSE "intrange"
                           /\ idx' = IF idx = Len(model.node) THEN 1 ELSE idx + 1
           ELSE \* warn("Skipping ...")
                /\ pc' = IF idx = Len(model.node) THEN "report" ELSE "intrange"
                /\ idx' = IF idx = Len(model.node) THEN 1 ELSE idx + 1
                /\ range_dict' = range_dict
    /\ UNCHANGED <<model, opts, stuck_chans, ret, arg, res>>

(***************************************************************************)
(* The report (lines 678-708).  The report options are read only here.     *)
(***************************************************************************)
REPORT_MODE_RANGE == "range"

REPORT_MODE_STUCKCHANNEL == "stuck_channel"

REPORT_MODE_ZEROSTUCKCHANNEL == "zerostuck_channel"

report_modes == {REPORT_MODE_RANGE, REPORT_MODE_STUCKCHANNEL, REPORT_MODE_ZEROSTUCKCHANNEL}

\* key_filter in k
IsSubstr(f, k) == \E i \in 0..(Len(k) - Len(f)) : SubSeq(k, i + 1, i + Len(f)) = f

Restrict(f, keep(_)) == [x \in {y \in DOMAIN f : keep(y)} |-> f[x]]

RECURSIVE ZeroChans(_)
ZeroChans(schans) ==
    IF Len(schans) = 0 THEN {}
    ELSE (IF NEq(schans[1][2], I(0)) THEN {schans[1][1]} ELSE {}) \cup ZeroChans(Tail(schans))

ZeroFilterKeepAll(r) == [x \in DOMAIN r |-> ZeroChans(r[x])]

\* only leave channels that are stuck at zero
ZeroFilter(r) ==
    [x \in {y \in DOMAIN r : ZeroChans(r[y]) # {}} |-> ZeroChans(r[x])]

FormatReport(rd, sc, report_mode, key_filter, strip_initializers_from_report) ==
    LET base == IF report_mode \in {REPORT_MODE_ZEROSTUCKCHANNEL, REPORT_MODE_STUCKCHANNEL}
                THEN sc
                ELSE IF strip_initializers_from_report
                     THEN Restrict(rd, LAMBDA x : ~rd[x].is_initializer)
                     ELSE rd
        filtered == IF key_filter # <<>>
                    THEN Restrict(base, LAMBDA x : IsSubstr(key_filter, x))
                    ELSE base
    IN  IF report_mode = REPORT_MODE_ZEROSTUCKCHANNEL THEN ZeroFilter(filtered)
        ELSE filtered


\* the name filters the report is asked with
KeyFilters == {<<>>, <<"t", "1">>}

Report ==
    /\ pc = "report"
    /\ \E report_mode \in report_modes, key_filter \in KeyFilters,
          strip_initializers_from_report \in BOOLEAN :
          ret' = [report_mode |-> report_mode, key_filter |-> key_filter,
                  strip |-> strip_initializers_from_report,
                  report |-> FormatReport(range_dict, stuck_chans, report_mode, key_filter,
                                          strip_initializers_from_report)]
    /\ pc' = "done"
    /\ UNCHANGED <<model, opts, range_dict, stuck_chans, idx, arg, res>>

(***************************************************************************)
(* The graphs analysed: chains of MaxNodes nodes in topological order.     *)
(* Node k reads the graph input or an output of an earlier node, and its   *)
(* constants are initializers of its own.                                  *)
(***************************************************************************)
MaxNodes == 2

Digits == <<"1", "2", "3", "4", "5", "6", "7", "8", "9">>

InName == <<"i", "n", "p">>

OutName(k) == <<"t", Digits[k]>>

Out2Name(k) == <<"t", Digits[k], "b">>

ConstName(c, k) == <<c, Digits[k]>>

\* source s of a node: 0 the graph input, j the first and -j the second output of node j
SrcName(s) == IF s = 0 THEN InName ELSE IF s > 0 THEN OutName(s) ELSE Out2Name(-s)

InputShape == <<1, 2>>

InputDType == [signed |-> TRUE, bits |-> 2]

NodeKinds == {"Relu", "Mul", "Quant", "Pad", "MatMul", "Gemm", "Split", "Softmax"}

Ints(seq) == Tab(LAMBDA i : I(seq[i]), Len(seq))

MkNode(k, kind, s, alpha) ==
    LET x == SrcName(s)
        nd(op, ins, outs, attr) ==
            [name |-> <<"n", Digits[k]>>, op_type |-> op, input |-> ins, output |-> outs,
             attr |-> attr]
    IN  CASE kind = "Mul" -> nd("Mul", <<x, ConstName("c", k)>>, <<OutName(k)>>, <<>>)
          [] kind = "Quant" ->
               nd("Quant", <<x, ConstName("s", k), ConstName("z", k), ConstName("n", k)>>,
                  <<OutName(k)>>, [signed |-> 1, narrow |-> 0])
          [] kind = "MatMul" -> nd("MatMul", <<x, ConstName("w", k)>>, <<OutName(k)>>, <<>>)
          [] kind = "Gemm" ->
               nd("Gemm", <<x, ConstName("w", k), ConstName("c", k)>>, <<OutName(k)>>,
                  [alpha |-> I(alpha), beta |-> I(1), transB |-> 1])
          [] kind = "Split" -> nd("Split", <<x>>, <<OutName(k), Out2Name(k)>>, <<>>)
          [] OTHER -> nd(kind, <<x>>, <<OutName(k)>>, <<>>)

NodeInits(k, kind) ==
    CASE kind = "Mul" -> (ConstName("c", k) :> V(Ints(<<0, 1>>)))
      [] kind = "Quant" ->
           (ConstName("s", k) :> V(Ints(<<1>>))) @@ (ConstName("z", k) :> V(Ints(<<0>>)))
           @@ (ConstName("n", k) :> V(Ints(<<2>>)))
      [] kind = "MatMul" -> (ConstName("w", k) :> M(<<Ints(<<1, 0>>), Ints(<<-1, 0>>)>>))
      [] kind = "Gemm" ->
           (ConstName("w", k) :> M(<<Ints(<<1, -1>>), Ints(<<1, 1>>)>>))
           @@ (ConstName("c", k) :> V(Ints(<<1, 0>>)))
      [] OTHER -> <<>>

\* shape inference (upstream of the analysis): the shapes of a node's outputs
OutShapes(node, m_init, ishp) ==
    CASE node.op_type = "MatMul" -> <<<<ishp[1], NCols(m_init[node.input[2]])>>>>
      [] node.op_type = "Gemm" -> <<<<ishp[1], NRows(m_init[node.input[2]])>>>>
      [] node.op_type = "Conv" -> <<<<ishp[1], NRows(m_init[node.input[2]])>>>>
      [] node.op_type = "Pad" -> <<<<ishp[1] + 1, ishp[2]>>>>
      [] node.op_type = "Split" -> <<<<ishp[1], 1>>, <<ishp[1], ishp[2] - 1>>>>
      [] OTHER -> <<ishp>>

RECURSIVE MergeAll(_, _)
MergeAll(fs, i) == IF i > Len(fs) THEN <<>> ELSE fs[i] @@ MergeAll(fs, i + 1)

RECURSIVE InferShapes(_, _, _, _)
InferShapes(nodes, m_init, k, shp) ==
    IF k > Len(nodes) THEN shp
    ELSE LET outs == OutShapes(nodes[k], m_init, shp[nodes[k].input[1]])
         IN  InferShapes(nodes, m_init, k + 1,
                         [o \in {nodes[k].output[i] : i \in 1..Len(nodes[k].output)} |->
                            outs[CHOOSE i \in 1..Len(outs) : nodes[k].output[i] = o]] @@ shp)

BuildModel(nodes, consts) ==
    LET shp == InferShapes(nodes, consts, 1, InName :> InputShape)
    IN  [node |-> nodes, init |-> consts, input |-> <<InName>>, shape |-> shp,
         dtype |-> [x \in DOMAIN shp |-> IF x = InName THEN InputDType ELSE None]]

\* the wirings: node k reads the input, or an output of an earlier node
Wirings(kinds) ==
    {srcs \in [DOMAIN kinds -> (-Len(kinds))..Len(kinds)] :
        \A k \in DOMAIN kinds :
           /\ Abs(srcs[k]) < k
           /\ srcs[k] < 0 => kinds[-srcs[k]] = "Split"}

Sc(lo, hi) == [k |-> "tuple", v |-> <<S(I(lo)), S(I(hi))>>]

Pc(lo, hi) == [k |-> "tuple", v |-> <<V(Ints(lo)), V(Ints(hi))>>]

\* the initial input intervals: scalar and per-channel, with and without a stuck channel
WalkIRanges ==
    {Sc(0, 1), Sc(-1, 1), Pc(<<1, -1>>, <<1, 1>>), Pc(<<-1, 0>>, <<1, 0>>)}

WalkerStart ==
    /\ range_dict = <<>>
    /\ stuck_chans = <<>>
    /\ idx = 0
    /\ pc = "start"
    /\ ret = None
    /\ arg = None
    /\ res = None

Init ==
    /\ \E kinds \in [1..MaxNodes -> NodeKinds] : \E srcs \in Wirings(kinds) :
       \E alpha \in GemmAlphas :
          model = BuildModel([k \in 1..MaxNodes |-> MkNode(k, kinds[k], srcs[k], alpha)],
                             MergeAll([k \in 1..MaxNodes |-> NodeInits(k, kinds[k])], 1))
    /\ \E ir \in WalkIRanges, si \in BOOLEAN : opts = [irange |-> ir, scaled_int |-> si]
    /\ WalkerStart

Next == SeedRanges \/ WalkNode \/ IntRangeNode \/ Report

Spec == Init /\ [][Next]_vars

(***************************************************************************)
(* Properties of the analysis                                              *)
(***************************************************************************)
Outputs(node) == {node.output[i] : i \in 1..Len(node.output)}

NodeOutputs == UNION {Outputs(model.node[k]) : k \in 1..Len(model.node)}

\* a * b + c of values, broadcast
MulAdd(a, b, c) == Elementwise2(NAdd, Elementwise2(NMul, a, b), c)

IntPassDone == pc \in {"report", "done"} /\ opts.scaled_int

\* C2: after the scaled-integer pass every tensor of the store with complete
\* integer info satisfies scale * int_range.min + bias = range.min and
\* scale * int_range.max + bias = range.max.
C2_ScaledIntConsistent ==
    IntPassDone =>
        \A x \in DOMAIN range_dict :
           has_integer_info(range_dict[x]) =>
              LET ri == range_dict[x]
              IN  /\ AllEq(MulAdd(ri.scale, ri.int_range[1], ri.bias), ri.range[1])
                  /\ AllEq(MulAdd(ri.scale, ri.int_range[2], ri.bias), ri.range[2])

\* the walk over the nodes is over and no later pass has touched the store
WalkOnlyDone ==
    \/ pc = "intrange" /\ idx = 1
    \/ pc \in {"report", "done"} /\ ~opts.scaled_int

\* min <= max elementwise
Ordered(range) ==
    /\ IsVal(range[1]) /\ IsVal(range[2])
    /\ BOk(NRows(range[1]), NRows(range[2])) /\ BOk(NCols(range[1]), NCols(range[2]))
    /\ \A i \in 1..BDim(NRows(range[1]), NRows(range[2])),
          j \in 1..BDim(NCols(range[1]), NCols(range[2])) :
          NLe(At(range[1], i, j), At(range[2], i, j))

SeedsOrdered == \A i \in 1..Len(model.input) : Ordered(range_dict[model.input[i]].range)

\* C3: when every seeded input interval has min <= max, then after the walk
\* every tensor of the store has range.min <= range.max elementwise.
C3_RangeOrdered ==
    (WalkOnlyDone /\ SeedsOrdered) =>
        \A x \in DOMAIN range_dict :
           range_dict[x].range # NoRange => Ordered(range_dict[x].range)

\* the pairs (i, min[i]) of the channels with min[i] = max[i], channels
\* counted from 0, in ascending order
StuckPairs(range) ==
    SelectSeq(Tab(LAMBDA j : <<j - 1, range[1].v[j]>>, Len(range[1].v)),
              LAMBDA p : NEq(p[2], At(range[2], 1, p[1] + 1)))

StuckReported ==
    /\ pc = "done" /\ ~opts.scaled_int
    /\ ret.report_mode = REPORT_MODE_STUCKCHANNEL /\ ret.key_filter = <<>>

PerChannelOutput(x) ==
    /\ x \in DOMAIN range_dict
    /\ ~range_dict[x].is_initializer
    /\ range_dict[x].range # NoRange
    /\ range_dict[x].range[1].k = "v" /\ range_dict[x].range[2].k = "v"
    /\ Len(range_dict[x].range[1].v) = Len(range_dict[x].range[2].v)

\* C4: for a non-initializer node output with a per-channel interval, the
\* stuck-channel report entry is exactly the ascending sequence of the pairs
\* (i, min[i]) of the channels with min[i] = max[i], and a tensor without
\* such a channel has no entry.
C4_StuckReportExact ==
    StuckReported =>
        \A x \in NodeOutputs :
           PerChannelOutput(x) =>
              IF StuckPairs(range_dict[x].range) = <<>>
              THEN x \notin DOMAIN ret.report
              ELSE x \in DOMAIN ret.report
                   /\ ret.report[x] = StuckPairs(range_dict[x].range)

\* the positions of the zero-valued pairs of a stuck-channel entry
ZeroPairs(schans) == {q \in 1..Len(schans) : schans[q][2] = I(0)}

\* the stuck-channel report of the same store under the same name filter
StuckReportOfRun ==
    FormatReport(range_dict, stuck_chans, REPORT_MODE_STUCKCHANNEL, ret.key_filter, ret.strip)

ZeroStuckReported == pc = "done" /\ ret.report_mode = REPORT_MODE_ZEROSTUCKCHANNEL

\* C5: the zero-stuck-channel report is the stuck-channel report of the same
\* run re-filtered to zero-valued entries: a tensor maps to the set of the
\* channels whose stuck pair is (i, 0), and a tensor without one is absent.
C5_ZeroStuckIsRefilter ==
    ZeroStuckReported =>
        /\ DOMAIN ret.report = {x \in DOMAIN StuckReportOfRun : ZeroPairs(StuckReportOfRun[x]) # {}}
        /\ \A x \in DOMAIN ret.report :
              ret.report[x] = {StuckReportOfRun[x][q][1] : q \in ZeroPairs(StuckReportOfRun[x])}

\* a report that keeps a tensor stuck at zero and drops one stuck elsewhere
C5_Witness ==
    /\ ZeroStuckReported
    /\ \E x \in DOMAIN StuckReportOfRun : x \in DOMAIN ret.report
    /\ \E y \in DOMAIN StuckReportOfRun : y \notin DOMAIN ret.report

\* a dynamic input: not a constant, not the empty name
Dynamic(x) == x # <<>> /\ x \notin DOMAIN model.init

\* node k can be processed: its dynamic inputs have entries, its kind a rule
Eligible(k) ==
    /\ \A i \in 1..Len(model.node[k].input) :
          Dynamic(model.node[k].input[i]) => model.node[k].input[i] \in DOMAIN range_dict
    /\ model.node[k].op_type \in RegisteredOps

\* the walk has been through node k
Walked(k) == (pc = "walk" /\ k < idx) \/ pc \in {"intrange", "report", "done"}

SkipExactly ==
    \A k \in 1..Len(model.node) :
       /\ (Outputs(model.node[k]) \cap DOMAIN range_dict # {}) => Eligible(k)
       /\ (Walked(k) /\ Eligible(k)) => Outputs(model.node[k]) \subseteq DOMAIN range_dict

\* a step of the walk moves to the next node or leaves the walk
WalkForward ==
    (pc = "walk" /\ pc' = "walk") => idx' = idx + 1

\* C10: in the walk a node is skipped exactly when one of its dynamic inputs
\* has no store entry or its kind has no rule; the outputs of a skipped node
\* never get an entry, so the nodes depending on it are skipped too; and no
\* node is visited twice.
C10_SkipExactly == [](pc # "idle" => SkipExactly) /\ [][WalkForward]_vars

\* an unregistered node and a node reading its output, both skipped
C10_Witness ==
    /\ pc = "done"
    /\ \E k \in 1..Len(model.node), j \in 1..Len(model.node) :
          /\ j < k
          /\ model.node[j].op_type \notin RegisteredOps
          /\ model.node[k].op_type \in RegisteredOps
          /\ model.node[j].output[1] = model.node[k].input[1]
          /\ Outputs(model.node[j]) \cap DOMAIN range_dict = {}
          /\ Outputs(model.node[k]) \cap DOMAIN range_dict = {}

\* C11: a node skipped in the walk does not abort the analysis, the
\* scaled-integer pass included: the analysis never stops at a node that the
\* walk skipped (one with an unresolved dynamic input or without a rule).
C11_SkipRecoverable == ~(pc = "failed" /\ ~Eligible(idx))

(***************************************************************************)
(* Graphs whose first node reads constants only, followed by a node that   *)
(* reads its first output or the graph input.                              *)
(***************************************************************************)
ConstKinds == {"Relu", "Mul", "Quant", "Split"}

ConsumerKinds == {"Relu", "Mul", "Quant", "Pad", "MatMul"}

\* the constant tensors given to the first node, of shape (1, 2)
ConstTensors == {NumMat(<<iv>>) : iv \in [1..2 -> IvalVals]}

ConstNode(kind) ==
    [name |-> <<"n", "1">>,
     op_type |-> kind,
     input |-> CASE kind = "Mul" -> <<ConstName("a", 1), ConstName("c", 1)>>
                 [] kind = "Quant" -> <<ConstName("a", 1), ConstName("s", 1),
                                        ConstName("z", 1), ConstName("n", 1)>>
                 [] OTHER -> <<ConstName("a", 1)>>,
     output |-> IF kind = "Split" THEN <<OutName(1), Out2Name(1)>> ELSE <<OutName(1)>>,
     attr |-> IF kind = "Quant" THEN [signed |-> 1, narrow |-> 0] ELSE <<>>]

BuildConstModel(nodes, consts) ==
    LET shp == InferShapes(nodes, consts, 1,
                           (InName :> InputShape) @@ (ConstName("a", 1) :> <<1, 2>>))
    IN  [node |-> nodes, init |-> consts, input |-> <<InName>>, shape |-> shp,
         dtype |-> [x \in DOMAIN shp |-> IF x = InName THEN InputDType ELSE None]]

InitConst ==
    /\ \E kind \in ConstKinds, consumer \in ConsumerKinds, src \in 0..1, a \in ConstTensors :
          model = BuildConstModel(<<ConstNode(kind), MkNode(2, consumer, src, 1)>>,
                                  (ConstName("a", 1) :> a) @@ NodeInits(1, kind)
                                  @@ NodeInits(2, consumer))
    /\ \E ir \in WalkIRanges, si \in BOOLEAN : opts = [irange |-> ir, scaled_int |-> si]
    /\ WalkerStart

SpecConst == InitConst /\ [][Next]_vars

\* node k reads constants only and its kind is handled by the monotonic rule
ConstantOnly(k) ==
    /\ model.node[k].op_type \in MonotonicOps
    /\ \A i \in 1..Len(model.node[k].input) : ~Dynamic(model.node[k].input[i])

\* the value the evaluator gives for output i of node k on its constants
Evaluated(k, i) ==
    execute_node(model.node[k],
                 Tab(LAMBDA p : model.init[model.node[k].input[p]],
                     Len(model.node[k].input))).v[i]

RangeReported ==
    pc = "done" /\ ret.report_mode = REPORT_MODE_RANGE /\ ret.strip /\ ret.key_filter = <<>>

\* C12: for a node of the monotonic rule whose inputs are all constants the
\* evaluator is called exactly once, on the constants; every output has
\* min = max = the evaluated value and is flagged initializer; no stuck
\* channel is recorded for it; and it is absent from the range report when
\* initializers are stripped.
C12_ConstantNode ==
    \A k \in 1..Len(model.node) :
       (pc # "idle" /\ Walked(k) /\ ConstantOnly(k)) =>
          /\ EvaluatorCalls(model.node[k], model, NodeInitializers(model.node[k], model), <<>>)
                = <<Tab(LAMBDA p : model.init[model.node[k].input[p]],
                        Len(model.node[k].input))>>
          /\ \A i \in 1..Len(model.node[k].output) :
                LET o == model.node[k].output[i]
                IN  /\ o \in DOMAIN range_dict
                    /\ range_dict[o].range = <<Evaluated(k, i), Evaluated(k, i)>>
                    /\ range_dict[o].is_initializer
                    /\ o \notin DOMAIN stuck_chans
                    /\ RangeReported => o \notin DOMAIN ret.report

\* a quantizer of constant weights whose output is a constant of the store,
\* and a range report that holds other tensors but not this one
C12_Witness ==
    /\ RangeReported
    /\ ConstantOnly(1)
    /\ model.node[1].op_type = "Quant"
    /\ range_dict[model.node[1].output[1]].is_initializer
    /\ range_dict[model.node[1].output[1]].range[1] = Evaluated(1, 1)
    /\ ret.report # <<>>

(***************************************************************************)
(* The monotonic rule on its own: a node with dynamic inputs, the shape of *)
(* its tensors (rank 1 or 2) and the intervals of its inputs are drawn,    *)
(* the store is prepared as the walker prepares it, and the rule is        *)
(* applied once.                                                           *)
(***************************************************************************)
MonoKinds == {"Relu", "Mul", "Add", "Split"}

MonoShapes == {<<2>>, <<1, 2>>, <<2, 2>>}

MonoNode(kind) ==
    [name |-> <<"n">>,
     op_type |-> kind,
     input |-> CASE kind = "Mul" -> <<<<"x">>, <<"c">>>>
                 [] kind = "Add" -> <<<<"x">>, <<"y">>>>
                 [] OTHER -> <<<<"x">>>>,
     output |-> IF kind = "Split" THEN <<<<"o">>, <<"o", "b">>>> ELSE <<<<"o">>>>,
     attr |-> <<>>]

MonoModel(kind, shape) ==
    [node |-> <<MonoNode(kind)>>,
     init |-> IF kind = "Mul" THEN (<<"c">> :> NumVec(<<-1, 1>>)) ELSE <<>>,
     input |-> <<<<"x">>, <<"y">>>>,
     shape |-> (<<"x">> :> shape) @@ (<<"y">> :> shape) @@ (<<"c">> :> <<2>>)
               @@ (IF kind = "Split"
                   THEN (<<"o">> :> <<shape[1], 1>>) @@ (<<"o", "b">> :> <<shape[1], 1>>)
                   ELSE (<<"o">> :> shape)),
     dtype |-> <<>>]

MonoYRanges == {<<S(I(0)), S(I(1))>>, <<NumVec(<<-1, 0>>), NumVec(<<1, 0>>)>>}

InitMono ==
    /\ WalkerIdle
    /\ \E kind \in MonoKinds, shape \in MonoShapes, ir \in ScRanges \cup PcRanges(2),
          yr \in MonoYRanges :
          arg = [fn |-> "mono", node |-> MonoNode(kind), m |-> MonoModel(kind, shape),
                 irange |-> ir, yrange |-> yr,
                 rd |-> CreateOutputs(MonoNode(kind),
                           calc_range_all_initializers(MonoModel(kind, shape),
                              (<<"x">> :> [RangeInfo EXCEPT !.range = ir])
                              @@ (<<"y">> :> [RangeInfo EXCEPT !.range = yr])),
                           1)]
    /\ res = None

ApplyMono ==
    /\ arg.fn = "mono"
    /\ res = None
    /\ res' = [k |-> "ran", ran |-> calc_monotonic_range(arg.node, arg.m, arg.rd)]
    /\ UNCHANGED <<walker_vars, arg>>

SpecMono == InitMono /\ [][ApplyMono]_vars

MonoApplied == arg # None /\ arg.fn = "mono" /\ res # None

\* the dynamic inputs of the node, each listed once
MonoDyn == IF arg.node.op_type = "Add" THEN <<<<"x">>, <<"y">>>> ELSE <<<<"x">>>>

MonoRange(x) == IF x = <<"x">> THEN arg.irange ELSE arg.yrange

\* the interval of input x fits the shape of x: a scalar pair, or one bound per
\* channel of a tensor with a channel axis
MonoFits(x) ==
    \/ MonoRange(x)[1].k = "s"
    \/ Len(arg.m.shape[x]) = 2 /\ Len(MonoRange(x)[1].v) = arg.m.shape[x][2]

\* the tensor of the shape of x filled with bound b (1: min, 2: max) of x
BoundTensor(x, b) ==
    LET shape == arg.m.shape[x]
        at(j) == At(MonoRange(x)[b], 1, j)
    IN  IF Len(shape) = 1 THEN V(Tab(LAMBDA j : at(j), shape[1]))
        ELSE M(Tab(LAMBDA i : Tab(LAMBDA j : at(j), shape[2]), shape[1]))

\* the value of the node when dynamic input i takes bound pick[i]
MonoValue(pick) ==
    execute_node(arg.node,
                 Tab(LAMBDA p :
                        IF arg.node.input[p] \in DOMAIN arg.m.init
                        THEN arg.m.init[arg.node.input[p]]
                        ELSE BoundTensor(arg.node.input[p],
                                         pick[CHOOSE i \in 1..Len(MonoDyn) :
                                                 MonoDyn[i] = arg.node.input[p]]),
                     Len(arg.node.input)))

MonoPicks == [1..Len(MonoDyn) -> {1, 2}]

\* the elements of output o that belong to channel j, over all combinations:
\* column j of every row when the rank exceeds 1, element j otherwise
ChannelValues(o, j) ==
    UNION {LET out == MonoValue(pick).v[o]
           IN  IF out.k = "m" THEN {out.v[i][j] : i \in 1..NRows(out)} ELSE {out.v[j]}
           : pick \in MonoPicks}

Least(vals) == CHOOSE a \in vals : \A b \in vals : NLe(a, b)

Greatest(vals) == CHOOSE a \in vals : \A b \in vals : NLe(b, a)

\* C13: for a node with k >= 1 dynamic inputs the evaluator is called once
\* for each of the 2^k combinations of min / max prototype tensors, and the
\* recorded min (max) of each output of rank >= 1 is, per channel, the
\* minimum (maximum) over all combinations: over all axes but the channel
\* axis when the rank exceeds 1, over the raw vector otherwise.
C13_MonotonicCombinations ==
    (MonoApplied /\ \A i \in 1..Len(MonoDyn) : MonoFits(MonoDyn[i])) =>
        LET calls == EvaluatorCalls(arg.node, arg.m, NodeInitializers(arg.node, arg.m),
                                    ProtoVectors(arg.node, arg.m, arg.rd))
        IN  /\ Len(calls) = Pow2(Len(MonoDyn))
            /\ \A pick \in MonoPicks :
                  Cardinality({c \in 1..Len(calls) :
                                  execute_node(arg.node, calls[c]) = MonoValue(pick)}) >= 1
            /\ res.ran.ok
            /\ \A o \in 1..Len(arg.node.output) :
                  LET range == res.ran.rd[arg.node.output[o]].range
                      n_ch == IF Len(arg.m.shape[arg.node.output[o]]) = 1
                              THEN arg.m.shape[arg.node.output[o]][1]
                              ELSE arg.m.shape[arg.node.output[o]][2]
                  IN  /\ range[1] = V(Tab(LAMBDA j : Least(ChannelValues(o, j)), n_ch))
                      /\ range[2] = V(Tab(LAMBDA j : Greatest(ChannelValues(o, j)), n_ch))


\* the walker has been through node k and no later pass has touched the store
JustWalked(k) == (pc = "walk" /\ k < idx) \/ WalkOnlyDone

\* output x carries what the walker's post-processing leaves: its stuck
\* channels are recorded and a per-channel interval whose channels all agree
\* has become a scalar one
PostProcessed(x) ==
    /\ ~AllChannelsAgree(range_dict[x].range)
    /\ (PerChannelOutput(x) /\ StuckPairs(range_dict[x].range) # <<>>) =>
          (x \in DOMAIN stuck_chans /\ stuck_chans[x] = StuckPairs(range_dict[x].range))

\* C14: after the walker has visited a node whose rule ran, every
\* non-initializer output of the node, not only the first, has its stuck
\* channels recorded and its interval simplified to a scalar one when all
\* channels agree.
C14_EveryOutputPostProcessed ==
    \A k \in 1..Len(model.node) :
       (pc # "idle" /\ JustWalked(k) /\ Eligible(k)) =>
          \A x \in Outputs(model.node[k]) :
             (x \in DOMAIN range_dict /\ ~range_dict[x].is_initializer) => PostProcessed(x)


(***************************************************************************)
(* The scaled-integer rule of the quantizer on its own: the attributes and *)
(* parameters of a Quant node and the interval of its input are drawn, the *)
(* store is prepared by the range rule as in the walk, and the rule is     *)
(* applied once.                                                           *)
(***************************************************************************)
QuantBits == {2, 3}

QuantScales == {I(1), I(2), Frac(1, 2)}

QuantZeroPts == {-1, 0, 1}

QuantNode(signed, narrow) ==
    RuleNode("Quant", <<<<"x">>, <<"s">>, <<"z">>, <<"n">>>>,
             [signed |-> signed, narrow |-> narrow])

\* x is the graph input, or a constant when xc is a tensor
QuantModel(signed, narrow, scale, zeropt, bits, xc) ==
    RuleModel(QuantNode(signed, narrow),
              (<<"s">> :> V(<<scale>>)) @@ (<<"z">> :> V(<<I(zeropt)>>))
              @@ (<<"n">> :> V(<<I(bits)>>))
              @@ (IF xc = None THEN <<>> ELSE (<<"x">> :> xc)),
              (<<"x">> :> <<1, 2>>) @@ (<<"o">> :> <<1, 2>>)
              @@ (<<"s">> :> <<1>>) @@ (<<"z">> :> <<1>>) @@ (<<"n">> :> <<1>>))

InitQuant ==
    /\ WalkerIdle
    /\ \E signed \in {0, 1}, narrow \in {0, 1}, scale \in QuantScales,
          zeropt \in QuantZeroPts, bits \in QuantBits,
          xc \in {None, NumMat(<<<<-1, 1>>>>)}, ir \in ScRanges \cup PcRanges(2) :
          \E m \in {QuantModel(signed, narrow, scale, zeropt, bits, xc)} :
             arg = [fn |-> "quant", node |-> m.node[1], m |-> m, irange |-> ir,
                    rd |-> calc_monotonic_range(m.node[1], m, RuleStore(m.node[1], m, ir)).rd]
    /\ res = None

ApplyQuant ==
    /\ arg.fn = "quant"
    /\ res = None
    /\ res' = [k |-> "ran", ran |-> calc_intrange_quant(arg.node, arg.m, arg.rd)]
    /\ UNCHANGED <<walker_vars, arg>>

SpecQuant == InitQuant /\ [][ApplyQuant]_vars

\* the rule has been applied to a quantizer whose output is not constant
QuantNonConstant ==
    /\ arg # None /\ arg.fn = "quant" /\ res # None
    /\ ~arg.rd[<<"o">>].is_initializer

QuantSigned == arg.node.attr["signed"] = 1

QuantNarrow == arg.node.attr["narrow"] = 1

DeclaredBits == arg.m.init[<<"n">>].v[1].n

\* the interval of the declared bit-width / signedness
DeclaredMin == IF QuantSigned THEN -Pow2(DeclaredBits - 1) ELSE 0

DeclaredMax == IF QuantSigned THEN Pow2(DeclaredBits - 1) - 1 ELSE Pow2(DeclaredBits) - 1

\* scale = declared scale and bias = -(declared scale * declared zero-point)
QuantScaleBias ==
    /\ res.ran.ok
    /\ res.ran.rd[<<"o">>].scale = arg.m.init[<<"s">>]
    /\ res.ran.rd[<<"o">>].bias
          = V(<<NNeg(NMul(arg.m.init[<<"s">>].v[1], arg.m.init[<<"z">>].v[1]))>>)

QuantIntRange(lo, hi) == res.ran.rd[<<"o">>].int_range = <<S(I(lo)), S(I(hi))>>

\* C15 as stated: for a quantizer whose output is not constant the rule sets
\* scale and bias from the declared scale and zero-point, and the integer
\* interval is that of the declared bit-width / signedness with one
\* subtracted from its minimum when the quantizer is narrow and signed.
C15_QuantIntRangeSubtracts ==
    QuantNonConstant =>
        /\ QuantScaleBias
        /\ QuantIntRange(IF QuantNarrow /\ QuantSigned THEN DeclaredMin - 1 ELSE DeclaredMin,
                         DeclaredMax)

\* C15 amended: for a quantizer whose output is not constant the rule sets
\* scale and bias from the declared scale and zero-point, and the integer
\* interval is that of the declared bit-width / signedness with one added
\* to its minimum when the quantizer is narrow and signed, and that interval
\* unchanged otherwise.
C15_QuantIntRange ==
    QuantNonConstant =>
        /\ QuantScaleBias
        /\ QuantIntRange(IF QuantNarrow /\ QuantSigned THEN DeclaredMin + 1 ELSE DeclaredMin,
                         DeclaredMax)

\* a narrow signed 3-bit quantizer with a non-zero zero-point: [-3, 3]
C15_Witness ==
    /\ QuantNonConstant
    /\ QuantNarrow /\ QuantSigned /\ DeclaredBits = 3
    /\ arg.m.init[<<"z">>].v[1] = I(1)
    /\ res.ran.ok
    /\ QuantIntRange(-3, 3)


\* the real-valued range of x is settled: x was seeded (a graph input or an
\* initializer) or is an output of a node the walker has advanced past
Settled(x) ==
    /\ pc \notin {"idle", "start"}
    /\ x \in DOMAIN range_dict
    /\ \/ x \in DOMAIN model.init
       \/ \E i \in 1..Len(model.input) : model.input[i] = x
       \/ \E k \in 1..Len(model.node) : Walked(k) /\ x \in Outputs(model.node[k])

RangeKept ==
    \A x \in DOMAIN range_dict :
       Settled(x) => (x \in DOMAIN range_dict' /\ range_dict'[x].range = range_dict[x].range)

\* C16: once the walker has advanced past the producer of a tensor, no later
\* rule and no step of the scaled-integer pass (the integer-domain re-run of a
\* linear rule included) changes the range of a tensor already in the store;
\* the seeded ranges of graph inputs and initializers never change.
C16_RangeFinal == [][RangeKept]_vars

\* the scaled-integer pass has re-run the rule of a linear node in the
\* integer domain, after a quantizer gave the node's input integer info
C16_Witness ==
    /\ IntPassDone
    /\ \E k \in 1..Len(model.node) :
          /\ model.node[k].op_type = "MatMul"
          /\ \A i \in 1..Len(model.node[k].input) :
                has_integer_info(range_dict[model.node[k].input[i]])
          /\ has_integer_info(range_dict[model.node[k].output[1]])
          /\ range_dict[model.node[k].output[1]].range # NoRange


(***************************************************************************)
(* Graphs with two graph inputs of declared datatypes of their own (or     *)
(* none), analysed with and without an initial interval.                   *)
(***************************************************************************)
In2Name == <<"i", "n", "2">>

SeedDTypes ==
    {None, [signed |-> TRUE, bits |-> 2], [signed |-> FALSE, bits |-> 2],
     [signed |-> TRUE, bits |-> 3]}

SeedKinds == {"Relu", "Mul", "Quant", "Pad"}

SeedIRanges == {None, Sc(-1, 1), Pc(<<-1, 0>>, <<1, 0>>)}

\* one node of the kind, reading the first or the second graph input
BuildSeedModel(kind, second, d1, d2) ==
    LET node == IF second THEN [MkNode(1, kind, 0, 1) EXCEPT !.input[1] = In2Name]
                ELSE MkNode(1, kind, 0, 1)
        shp == InferShapes(<<node>>, NodeInits(1, kind), 1,
                           (InName :> InputShape) @@ (In2Name :> InputShape))
    IN  [node |-> <<node>>, init |-> NodeInits(1, kind), input |-> <<InName, In2Name>>,
         shape |-> shp,
         dtype |-> [x \in DOMAIN shp |-> IF x = InName THEN d1
                                         ELSE IF x = In2Name THEN d2 ELSE None]]

InitSeed ==
    /\ \E kind \in SeedKinds, second \in BOOLEAN, d1 \in SeedDTypes, d2 \in SeedDTypes :
          model = BuildSeedModel(kind, second, d1, d2)
    /\ \E ir \in SeedIRanges, si \in BOOLEAN : opts = [irange |-> ir, scaled_int |-> si]
    /\ WalkerStart

SpecSeed == InitSeed /\ [][Next]_vars

\* the inputs have been seeded (or seeding has failed) without an initial interval
SeededFromDTypes == pc \notin {"idle", "start"} /\ opts.irange = None

DTypeRange(dt) == <<S(I(DataTypeMin(dt))), S(I(DataTypeMax(dt)))>>

\* C17: when no initial interval is supplied, every graph input is seeded
\* with the (min, max) of its own declared datatype, also when the graph has
\* several inputs of different datatypes, and the analysis fails if an input
\* has no declared datatype.
C17_SeedFromOwnDType ==
    SeededFromDTypes =>
        IF \E i \in 1..Len(model.input) : model.dtype[model.input[i]] = None
        THEN pc = "failed"
        ELSE \A i \in 1..Len(model.input) :
                /\ model.input[i] \in DOMAIN range_dict
                /\ range_dict[model.input[i]].range = DTypeRange(model.dtype[model.input[i]])

=============================================================================
